---- MODULE Spec2Model ----
(***************************************************************************)
(* TraceSmith GDB back end: the RSP stub (RSPHandler), the process          *)
(* controller (ProcessController) and the GPU debug engine                  *)
(* (GPUDebugEngine), together with their environment: the debugger client   *)
(* on the socket, the traced target process, and the vendor profiler        *)
(* thread that delivers GPU events.                                         *)
(*                                                                          *)
(* Abstractions.  The target is one single-threaded process running a       *)
(* straight-line program of one-byte instructions at the addresses Addrs;   *)
(* only the register rip is kept.  The inbound socket is a queue whose      *)
(* items are single bytes ('+', '-', 0x03) or whole frames "$payload#cs"     *)
(* as the client wrote them; the stub reads a frame in one step.  What the  *)
(* stub writes is kept per packet it handles.  The Linux build              *)
(* (TRACESMITH_PLATFORM_LINUX) is modelled.                                 *)
(***************************************************************************)
EXTENDS Integers, Sequences, FiniteSets, TLC

\* ------------------------------------------------------------------ bounds
MaxPackets    == 3   \* framed packets the client sends in one session
MaxInterrupts == 1   \* 0x03 bytes the client sends in one session
MaxGpuEvents  == 1   \* GPU events the profiler delivers in one session
MaxAddr       == 1   \* the target program occupies addresses 0..MaxAddr
MaxCalls      == 4   \* controller API calls in one run of PCSpec
MaxLen        == 3   \* bytes in a string handed to encode in CodecSpec
MaxEdits      == 1   \* bytes of a frame damaged before decode in CodecSpec
MaxBreakpoints == 2  \* GPU breakpoints set in one run of GpuSpec
MaxChecks     == 2   \* events checked against the breakpoints in one run of GpuSpec
MaxRecords    == 3   \* activity records the vendor runtime reports in one run of CaptureSpec
MaxDrains     == 2   \* getEvents calls a caller makes in one run of CaptureSpec
MaxBuffer     == 2   \* the largest buffer_size and history size configured in CaptureSpec

\* ------------------------------------------------------- program constants
TRAP    == 204       \* 0xCC, int3
SIGTRAP == 5
SIGSTOP == 19
event_history_size  == 10000
kernel_history_size == 1000

Pids    == {4660}    \* 0x1234: the process id of the target
Addrs   == 0..MaxAddr
Program == [a \in Addrs |-> 144]   \* the target's code: a nop (0x90) at every address
NoStatus == [k |-> "none"]

\* ------------------------------------------------------------- map helpers
EmptyMap == [x \in {} |-> 0]
MapPut(m, k, v) == [x \in DOMAIN m \cup {k} |-> IF x = k THEN v ELSE m[x]]
MapDel(m, k) == [x \in DOMAIN m \ {k} |-> m[x]]
SetMin(S) == CHOOSE x \in S : \A y \in S : x <= y

\* F applied to v, with v evaluated once
Once(v, F(_)) == CHOOSE y \in {F(x) : x \in {v}} : TRUE

\* ---------------------------------------------------------- string helpers
Char(s, i) == SubSeq(s, i, i)
Substr(s, from) == SubSeq(s, from, Len(s))
HexDigits == "0123456789abcdef"
\* printable ASCII by code, 32..126; the double quote, the backslash and the backtick
\* are not represented (a question mark stands at their places)
Ascii == " !?#$%&'()*+,-./0123456789:;<=>?@ABCDEFGHIJKLMNOPQRSTUVWXYZ[?]^_?abcdefghijklmnopqrstuvwxyz{|}~"
\* std::string::find(c, from): 1-based position of the first c at or after from, 0 for npos
RECURSIVE Find(_, _, _)
Find(s, c, from) ==
    IF from > Len(s) THEN 0
    ELSE IF Char(s, from) = c THEN from
    ELSE Find(s, c, from + 1)
\* the code of each character the model writes in strings
OrdTable ==
    ("\n" :> 10) @@
    " " :> 32 @@ "!" :> 33 @@ "#" :> 35 @@ "$" :> 36 @@ "%" :> 37 @@ "&" :> 38 @@
    "'" :> 39 @@ "(" :> 40 @@ ")" :> 41 @@ "*" :> 42 @@ "+" :> 43 @@ "," :> 44 @@
    "-" :> 45 @@ "." :> 46 @@ "/" :> 47 @@ "0" :> 48 @@ "1" :> 49 @@ "2" :> 50 @@
    "3" :> 51 @@ "4" :> 52 @@ "5" :> 53 @@ "6" :> 54 @@ "7" :> 55 @@ "8" :> 56 @@
    "9" :> 57 @@ ":" :> 58 @@ ";" :> 59 @@ "<" :> 60 @@ "=" :> 61 @@ ">" :> 62 @@
    "?" :> 63 @@ "@" :> 64 @@ "A" :> 65 @@ "B" :> 66 @@ "C" :> 67 @@ "D" :> 68 @@
    "E" :> 69 @@ "F" :> 70 @@ "G" :> 71 @@ "H" :> 72 @@ "I" :> 73 @@ "J" :> 74 @@
    "K" :> 75 @@ "L" :> 76 @@ "M" :> 77 @@ "N" :> 78 @@ "O" :> 79 @@ "P" :> 80 @@
    "Q" :> 81 @@ "R" :> 82 @@ "S" :> 83 @@ "T" :> 84 @@ "U" :> 85 @@ "V" :> 86 @@
    "W" :> 87 @@ "X" :> 88 @@ "Y" :> 89 @@ "Z" :> 90 @@ "[" :> 91 @@ "]" :> 93 @@
    "^" :> 94 @@ "_" :> 95 @@ "a" :> 97 @@ "b" :> 98 @@ "c" :> 99 @@ "d" :> 100 @@
    "e" :> 101 @@ "f" :> 102 @@ "g" :> 103 @@ "h" :> 104 @@ "i" :> 105 @@ "j" :> 106 @@
    "k" :> 107 @@ "l" :> 108 @@ "m" :> 109 @@ "n" :> 110 @@ "o" :> 111 @@ "p" :> 112 @@
    "q" :> 113 @@ "r" :> 114 @@ "s" :> 115 @@ "t" :> 116 @@ "u" :> 117 @@ "v" :> 118 @@
    "w" :> 119 @@ "x" :> 120 @@ "y" :> 121 @@ "z" :> 122 @@ "{" :> 123 @@ "|" :> 124 @@
    "}" :> 125 @@ "~" :> 126
HexTable ==
    "0" :> 0 @@ "1" :> 1 @@ "2" :> 2 @@ "3" :> 3 @@ "4" :> 4 @@ "5" :> 5 @@ "6" :> 6 @@ "7" :> 7 @@
    "8" :> 8 @@ "9" :> 9 @@
    "a" :> 10 @@ "b" :> 11 @@ "c" :> 12 @@ "d" :> 13 @@ "e" :> 14 @@ "f" :> 15 @@
    "A" :> 10 @@ "B" :> 11 @@ "C" :> 12 @@ "D" :> 13 @@ "E" :> 14 @@ "F" :> 15
\* the value of a hex digit, -1 for any other character
HexVal(c) == IF c \in DOMAIN HexTable THEN HexTable[c] ELSE -1
\* the character with code n; a code that has no character here prints as "?"
Chr(n) == IF n = 10 THEN "\n" ELSE IF n >= 32 /\ n <= 126 THEN Char(Ascii, n - 31) ELSE "?"
Ord(c) == OrdTable[c]
HexByte(b) == Char(HexDigits, (b \div 16) + 1) \o Char(HexDigits, (b % 16) + 1)

\* ---------------------------------------------------------------- state
VARIABLES
    \* RSPHandler
    pc,            \* where run() is: "top", "recv", "wait", "ack" or "done"
    running_,      \* std::atomic<bool> running_
    no_ack_mode_,  \* bool no_ack_mode_
    packet,        \* run(): the payload receivePacket last returned
    resuming,      \* handleContinue/handleStep: what the pending resume is ("c", "s")
    \* the client socket
    inbound,       \* items the client has written and the stub has not read yet
    peerClosed,    \* the client has closed its end
    tx,            \* what the stub has written since it last entered receivePacket
    \* ProcessController and the traced process
    process_,      \* pid_, current_thread_, attached_, breakpoints_, addr_to_bp_, next_bp_id_
    target,        \* the tracee as the kernel holds it: mem, rip, state, wstatus, sigstop
    \* GPUDebugEngine
    gpu_engine_,
    \* the environment's budget and the observations the properties read
    env,           \* what the client, the profiler and the API caller have done so far
    obs            \* history of the session, read only by the properties

vars == <<pc, running_, no_ack_mode_, packet, resuming, inbound, peerClosed, tx,
          process_, target, gpu_engine_, env, obs>>

\* ------------------------------------------------ the traced process (OS)
\* A ptrace request on the current thread succeeds only while that thread is
\* in ptrace-stop (ESRCH otherwise).
Traced(w) == w.t.state = "stopped" /\ w.p.current_thread_ = w.t.pid /\ w.t.pid > 0
\* PTRACE_PEEKDATA / PTRACE_POKEDATA: fault names the request the kernel refuses
\* in this call ("none", "peek" or "poke"); an address outside the mapping fails too.
PeekOk(w, addr, fault) == Traced(w) /\ addr \in Addrs /\ fault # "peek"
PokeOk(w, addr, fault) == Traced(w) /\ addr \in Addrs /\ fault # "poke"
Faults == {"none", "peek", "poke"}

\* ----------------------------------------------------- ProcessController
isAttached(p) == p.pid_ > 0 /\ p.attached_

\* hasBreakpointAt: an enabled breakpoint is registered at addr
hasBreakpointAt(p, addr) ==
    /\ addr \in DOMAIN p.addr_to_bp_
    /\ p.addr_to_bp_[addr] \in DOMAIN p.breakpoints_
    /\ p.breakpoints_[p.addr_to_bp_[addr]].enabled

\* insertBreakpointInstruction(addr, original&): [ok, w, original]; original is the
\* caller's byte, overwritten as soon as the read has succeeded
insertBreakpointInstruction(w, addr, original, fault) ==
    IF ~PeekOk(w, addr, fault) THEN [ok |-> FALSE, w |-> w, original |-> original]
    ELSE IF ~PokeOk(w, addr, fault)
         THEN [ok |-> FALSE, w |-> w, original |-> w.t.mem[addr]]
         ELSE [ok |-> TRUE,
               w |-> [w EXCEPT !.t.mem[addr] = TRAP],
               original |-> w.t.mem[addr]]

\* removeBreakpointInstruction(addr, original): [ok, w]
removeBreakpointInstruction(w, addr, original, fault) ==
    IF ~PeekOk(w, addr, fault) \/ ~PokeOk(w, addr, fault) THEN [ok |-> FALSE, w |-> w]
    ELSE [ok |-> TRUE, w |-> [w EXCEPT !.t.mem[addr] = original]]

\* setBreakpoint(addr): ret is the breakpoint id or -1
setBreakpoint(w, addr, fault) ==
    IF ~isAttached(w.p) THEN [w |-> w, ret |-> -1]
    ELSE IF addr \in DOMAIN w.p.addr_to_bp_ THEN [w |-> w, ret |-> w.p.addr_to_bp_[addr]]
    ELSE LET id  == w.p.next_bp_id_
             w1  == [w EXCEPT !.p.next_bp_id_ = @ + 1]
             ins == insertBreakpointInstruction(w1, addr, 0, fault)
             bp  == [id |-> id, address |-> addr, original_byte |-> ins.original,
                     enabled |-> TRUE, hit_count |-> 0]
         IN  IF ~ins.ok THEN [w |-> ins.w, ret |-> -1]
             ELSE [w |-> [ins.w EXCEPT !.p.breakpoints_ = MapPut(@, id, bp),
                                       !.p.addr_to_bp_ = MapPut(@, addr, id)],
                   ret |-> id]

\* removeBreakpoint(bp_id): the result of removeBreakpointInstruction is not looked at
removeBreakpoint(w, bp_id, fault) ==
    IF bp_id \notin DOMAIN w.p.breakpoints_ THEN [w |-> w, ret |-> FALSE]
    ELSE LET bp == w.p.breakpoints_[bp_id]
             w1 == IF bp.enabled
                   THEN removeBreakpointInstruction(w, bp.address, bp.original_byte, fault).w
                   ELSE w
         IN  [w |-> [w1 EXCEPT !.p.addr_to_bp_ = MapDel(@, bp.address),
                               !.p.breakpoints_ = MapDel(@, bp_id)],
              ret |-> TRUE]

removeBreakpointAt(w, addr, fault) ==
    IF addr \notin DOMAIN w.p.addr_to_bp_ THEN [w |-> w, ret |-> FALSE]
    ELSE removeBreakpoint(w, w.p.addr_to_bp_[addr], fault)

\* enableBreakpoint(bp_id, enable)
enableBreakpoint(w, bp_id, enable, fault) ==
    IF bp_id \notin DOMAIN w.p.breakpoints_ THEN [w |-> w, ret |-> FALSE]
    ELSE LET bp == w.p.breakpoints_[bp_id] IN
         IF bp.enabled = enable THEN [w |-> w, ret |-> TRUE]
         ELSE IF enable
         THEN LET ins == insertBreakpointInstruction(w, bp.address, bp.original_byte, fault)
                  w1  == [ins.w EXCEPT !.p.breakpoints_[bp_id].original_byte = ins.original]
              IN  IF ~ins.ok THEN [w |-> w1, ret |-> FALSE]
                  ELSE [w |-> [w1 EXCEPT !.p.breakpoints_[bp_id].enabled = TRUE], ret |-> TRUE]
         ELSE LET rem == removeBreakpointInstruction(w, bp.address, bp.original_byte, fault)
              IN  IF ~rem.ok THEN [w |-> w, ret |-> FALSE]
                  ELSE [w |-> [rem.w EXCEPT !.p.breakpoints_[bp_id].enabled = FALSE],
                        ret |-> TRUE]

\* detach(): the loop over breakpoints_ that restores the enabled ones
RECURSIVE restoreBreakpoints(_, _, _)
restoreBreakpoints(w, ids, fault) ==
    IF ids = {} THEN w
    ELSE LET id == SetMin(ids)
             bp == w.p.breakpoints_[id]
             w1 == IF bp.enabled
                   THEN removeBreakpointInstruction(w, bp.address, bp.original_byte, fault).w
                   ELSE w
         IN  restoreBreakpoints(w1, ids \ {id}, fault)

\* detach(): PTRACE_DETACH lets a stopped tracee run on untraced
detach(w, fault) ==
    IF ~isAttached(w.p) THEN [w |-> w, ret |-> FALSE]
    ELSE LET w1 == restoreBreakpoints(w, DOMAIN w.p.breakpoints_, fault)
             t1 == IF Traced(w1) THEN [w1.t EXCEPT !.state = "detached"] ELSE w1.t
         IN  [w |-> [p |-> [w1.p EXCEPT !.breakpoints_ = EmptyMap, !.addr_to_bp_ = EmptyMap,
                                        !.pid_ = 0, !.current_thread_ = 0,
                                        !.attached_ = FALSE],
                     t |-> t1],
              ret |-> TRUE]

\* kill(): SIGKILL, then waitpid reaps the process
kill(w) ==
    IF ~isAttached(w.p) THEN [w |-> w, ret |-> FALSE]
    ELSE [w |-> [p |-> [w.p EXCEPT !.pid_ = 0, !.current_thread_ = 0, !.attached_ = FALSE,
                                   !.breakpoints_ = EmptyMap, !.addr_to_bp_ = EmptyMap],
                 t |-> [w.t EXCEPT !.state = "gone", !.wstatus = NoStatus,
                                   !.sigstop = FALSE]],
          ret |-> TRUE]

\* continueExecution(signal): PTRACE_CONT on current_thread_; a stop that waitpid has
\* not reported yet is no longer reported once the tracee runs again
continueExecution(w, signal) ==
    IF ~isAttached(w.p) THEN [w |-> w, ret |-> FALSE]
    ELSE IF ~Traced(w) THEN [w |-> w, ret |-> FALSE]
    ELSE [w |-> [w EXCEPT !.t.state = "running", !.t.wstatus = NoStatus], ret |-> TRUE]

\* singleStep(signal): PTRACE_SINGLESTEP on current_thread_
singleStep(w, signal) ==
    IF ~isAttached(w.p) THEN [w |-> w, ret |-> FALSE]
    ELSE IF ~Traced(w) THEN [w |-> w, ret |-> FALSE]
    ELSE [w |-> [w EXCEPT !.t.state = "stepping", !.t.wstatus = NoStatus], ret |-> TRUE]

\* interrupt(): kill(pid_, SIGSTOP); the signal stays pending until the tracee runs
interrupt(w) ==
    IF ~isAttached(w.p) THEN [w |-> w, ret |-> FALSE]
    ELSE IF w.t.state \in {"gone"} THEN [w |-> w, ret |-> FALSE]
    ELSE [w |-> [w EXCEPT !.t.sigstop = (w.t.state # "zombie")], ret |-> TRUE]

\* readRegisters(): PTRACE_GETREGS on current_thread_; a zeroed set when it fails
readRegisters(w) == IF isAttached(w.p) /\ Traced(w) THEN [rip |-> w.t.rip] ELSE [rip |-> 0]

\* writeRegisters(regs): PTRACE_GETREGS then PTRACE_SETREGS
writeRegisters(w, regs) ==
    IF isAttached(w.p) /\ Traced(w) THEN [w |-> [w EXCEPT !.t.rip = regs.rip], ret |-> TRUE]
    ELSE [w |-> w, ret |-> FALSE]

\* a handleBreakpointHit that forgets to count the hit
handleBreakpointHit_NoCount(w, tid) == w

\* handleBreakpointHit(tid): counts a hit on the breakpoint registered at rip
handleBreakpointHit(w, tid) ==
    LET bp_addr == readRegisters(w).rip IN
    IF bp_addr \in DOMAIN w.p.addr_to_bp_ /\ w.p.addr_to_bp_[bp_addr] \in DOMAIN w.p.breakpoints_
    THEN [w EXCEPT !.p.breakpoints_[w.p.addr_to_bp_[bp_addr]].hit_count = @ + 1]
    ELSE w

\* StopEvent as default-constructed
NoEvent == [reason |-> "None", signal |-> 0, exit_code |-> 0, pc |-> 0, thread_id |-> 0]

\* waitpid(-1, &status, __WALL) returns: a status is pending, or there is no child
WaitReturns(t) == t.wstatus.k # "none" \/ t.state = "gone"

\* waitForStop(), from the return of waitpid on: [w, event]
waitForStop(w) ==
    IF ~isAttached(w.p) THEN [w |-> w, event |-> NoEvent]
    ELSE IF w.t.wstatus.k = "none" THEN [w |-> w, event |-> NoEvent]   \* waitpid < 0
    ELSE LET st  == w.t.wstatus
             tid == w.t.pid
             \* the kernel hands the status over; an exited process is reaped
             w0  == [w EXCEPT !.t.wstatus = NoStatus,
                              !.t.state = IF st.k = "exit" THEN "gone" ELSE @]
             ev0 == [NoEvent EXCEPT !.thread_id = tid]
             done(wx, ev) == [w |-> [wx EXCEPT !.p.current_thread_ = tid], event |-> ev]
         IN  IF st.k = "exit"
             THEN done(w0, [ev0 EXCEPT !.reason = "Exited", !.exit_code = st.code])
             ELSE IF st.k = "killed"
             THEN done(w0, [ev0 EXCEPT !.reason = "Signal", !.signal = st.sig])
             ELSE IF st.sig = SIGTRAP
             THEN LET regs    == readRegisters(w0)
                      bp_addr == regs.rip - 1
                  IN  IF hasBreakpointAt(w0.p, bp_addr)
                      THEN LET w1 == writeRegisters(w0, [rip |-> bp_addr]).w
                               w2 == handleBreakpointHit(w1, tid)
                           IN  done(w2, [ev0 EXCEPT !.reason = "Breakpoint", !.pc = bp_addr])
                      ELSE done(w0, [ev0 EXCEPT !.reason = "Signal", !.signal = SIGTRAP,
                                                !.pc = regs.rip])
             ELSE done(w0, [ev0 EXCEPT !.reason = "Signal", !.signal = st.sig])

\* ------------------------------------------------- the target's own steps
\* The tracee executes the instruction at rip: int3 raises SIGTRAP with rip past it,
\* a single-step raises SIGTRAP after one instruction, and running off the end of the
\* program is exit(0).  A pending SIGSTOP is delivered before any instruction.
targetExec(t) ==
    IF t.rip \notin Addrs
    THEN [t EXCEPT !.state = "zombie", !.wstatus = [k |-> "exit", code |-> 0]]
    ELSE IF t.mem[t.rip] = TRAP \/ t.state = "stepping"
    THEN [t EXCEPT !.rip = @ + 1, !.state = "stopped",
                   !.wstatus = [k |-> "stop", sig |-> SIGTRAP]]
    ELSE [t EXCEPT !.rip = @ + 1]

\* an untraced (detached) process dies of the SIGTRAP an int3 raises
targetExecDetached(t) ==
    IF t.rip \notin Addrs THEN [t EXCEPT !.state = "gone"]
    ELSE IF t.mem[t.rip] = TRAP THEN [t EXCEPT !.rip = @ + 1, !.state = "gone"]
    ELSE [t EXCEPT !.rip = @ + 1]

targetSignalStop(t, sig) ==
    [t EXCEPT !.state = "stopped", !.wstatus = [k |-> "stop", sig |-> sig],
              !.sigstop = IF sig = SIGSTOP THEN FALSE ELSE @]

\* ------------------------------------------------------------- RSPPacket
\* toHex(const std::string&): two lower-case hex digits per character
RECURSIVE hexOf(_, _, _)
hexOf(str, lo, hi) ==
    IF lo > hi THEN ""
    ELSE IF lo = hi THEN HexByte(Ord(Char(str, lo)))
    ELSE hexOf(str, lo, (lo + hi) \div 2) \o hexOf(str, (lo + hi) \div 2 + 1, hi)
toHexStr(str) == Once(str, LAMBDA s : hexOf(s, 1, Len(s)))

\* toHex(uint64_t value, int width): the bytes of value, least significant first
RECURSIVE autoBytes(_)
autoBytes(value) ==
    IF value = 0 THEN "" ELSE HexByte(value % 256) \o autoBytes(value \div 256)
RECURSIVE fixedBytes(_, _)
fixedBytes(value, n) ==
    IF n = 0 THEN "" ELSE HexByte(value % 256) \o fixedBytes(value \div 256, n - 1)
toHex(value, width) ==
    IF width = 0 THEN (IF value = 0 THEN "00" ELSE autoBytes(value))
    ELSE fixedBytes(value, width \div 2)

\* std::stoi(two characters, nullptr, 16): the leading hex digits, or a throw when
\* the first character is no hex digit (-1)
stoi16(s2) ==
    LET d1 == HexVal(Char(s2, 1))
        d2 == IF Len(s2) > 1 THEN HexVal(Char(s2, 2)) ELSE -1
    IN  IF d1 < 0 THEN -1 ELSE IF d2 < 0 THEN d1 ELSE 16 * d1 + d2

\* fromHex(hex): [bytes, threw]; the stoi of an odd string's first digit is not in a try
RECURSIVE fromHexPairs(_, _)
fromHexPairs(hex, i) ==
    IF i + 1 > Len(hex) THEN <<>>
    ELSE LET v == stoi16(SubSeq(hex, i, i + 1)) IN
         IF v < 0 THEN <<>> ELSE <<v>> \o fromHexPairs(hex, i + 2)
fromHexOf(hex) ==
    IF Len(hex) % 2 = 1
    THEN IF HexVal(Char(hex, 1)) < 0 THEN [bytes |-> <<>>, threw |-> TRUE]
         ELSE [bytes |-> <<HexVal(Char(hex, 1))>> \o fromHexPairs(hex, 2), threw |-> FALSE]
    ELSE [bytes |-> fromHexPairs(hex, 1), threw |-> FALSE]
fromHex(hex) == Once(hex, LAMBDA h : fromHexOf(h))

\* std::string(bytes.begin(), bytes.end())
RECURSIVE stringOf(_, _, _)
stringOf(bytes, lo, hi) ==
    IF lo > hi THEN ""
    ELSE IF lo = hi THEN Chr(bytes[lo])
    ELSE stringOf(bytes, lo, (lo + hi) \div 2) \o stringOf(bytes, (lo + hi) \div 2 + 1, hi)
bytesToString(bytes) == Once(bytes, LAMBDA b : stringOf(b, 1, Len(b)))

\* hexToUint64(hex): std::stoull base 16 reads the leading hex digits; 0 when it throws
RECURSIVE hexPrefix(_, _, _)
hexPrefix(hex, i, acc) ==
    IF i > Len(hex) \/ HexVal(Char(hex, i)) < 0 THEN acc
    ELSE hexPrefix(hex, i + 1, 16 * acc + HexVal(Char(hex, i)))
hexToUint64(hex) == Once(hex, LAMBDA h : hexPrefix(h, 1, 0))

\* parseType(data): by the first character
parseType(data) ==
    IF data = "" THEN "Unknown"
    ELSE LET cmd == Char(data, 1) IN
         CASE cmd = "g" -> "ReadRegisters"   [] cmd = "G" -> "WriteRegisters"
           [] cmd = "m" -> "ReadMemory"      [] cmd = "M" -> "WriteMemory"
           [] cmd = "X" -> "BinaryWrite"     [] cmd = "c" -> "Continue"
           [] cmd = "C" -> "ContinueSignal"  [] cmd = "s" -> "Step"
           [] cmd = "S" -> "StepSignal"      [] cmd = "k" -> "Kill"
           [] cmd = "D" -> "Detach"          [] cmd = "Z" -> "InsertBreakpoint"
           [] cmd = "z" -> "RemoveBreakpoint" [] cmd = "q" -> "Query"
           [] cmd = "Q" -> "QuerySet"        [] cmd = "v" -> "VCommand"
           [] cmd = "!" -> "ExtendedMode"    [] cmd = "?" -> "RestartReason"
           [] cmd = "T" -> "ThreadAlive"     [] cmd = "H" -> "SetThread"
           [] cmd = "+" -> "Ack"             [] cmd = "-" -> "Nack"
           [] OTHER -> "Unknown"

\* RSPQuery::parse(query): the name up to the first ':', then the ':'-separated args
RECURSIVE splitColons(_, _)
splitColons(remaining, pos) ==
    LET next == Find(remaining, ":", pos) IN
    IF next > 0 THEN <<SubSeq(remaining, pos, next - 1)>> \o splitColons(remaining, next + 1)
    ELSE IF pos <= Len(remaining) THEN <<Substr(remaining, pos)>> ELSE <<>>
RSPQuery_parse(query) ==
    LET colon_pos == Find(query, ":", 1) IN
    IF query = "" THEN [name |-> "", args |-> <<>>]
    ELSE IF colon_pos = 0 THEN [name |-> query, args |-> <<>>]
    ELSE [name |-> SubSeq(query, 1, colon_pos - 1),
          args |-> splitColons(Substr(query, colon_pos + 1), 1)]

\* formatStopReply(event)
formatStopReply(event) ==
    CASE event.reason = "Exited" -> "W" \o toHex(event.exit_code, 2)
      [] event.reason \in {"Breakpoint", "Signal"} ->
            "T" \o toHex(event.signal, 2) \o "thread:" \o toHex(event.thread_id, 0) \o ";"
      [] event.reason = "GPUBreakpoint" -> "T05thread:" \o toHex(event.thread_id, 0) \o ";"
      [] OTHER -> "S05"

\* stopReplyThread(signal, tid), before encode: the thread id through std::hex
RECURSIVE stdHex(_)
stdHex(n) == IF n < 16 THEN Char(HexDigits, n + 1)
             ELSE stdHex(n \div 16) \o Char(HexDigits, (n % 16) + 1)
stopReplyThread(signal, tid) ==
    "T" \o HexByte(signal % 256) \o "thread:" \o stdHex(tid) \o ";"

\* ------------------------------------------------------- GPUDebugEngine
\* fnmatch(pattern, name, 0) == 0, for patterns of literals, '*' and '?'
RECURSIVE fnmatch(_, _)
fnmatch(pat, name) ==
    IF pat = "" THEN name = ""
    ELSE IF Char(pat, 1) = "*"
    THEN fnmatch(Substr(pat, 2), name) \/ (name # "" /\ fnmatch(pat, Substr(name, 2)))
    ELSE /\ name # ""
         /\ (Char(pat, 1) = "?" \/ Char(pat, 1) = Char(name, 1))
         /\ fnmatch(Substr(pat, 2), Substr(name, 2))

\* a matches that does not look at the device filter
matches_AnyDevice(bp, event) ==
    /\ bp.enabled
    /\ (IF bp.type = "Synchronize" THEN event.type \in {"StreamSync", "DeviceSync", "EventSync"}
        ELSE bp.type = "AnyEvent" \/ event.type = bp.type)
    /\ (bp.type \in {"KernelLaunch", "KernelComplete"} /\ bp.kernel_pattern # ""
           => fnmatch(bp.kernel_pattern, event.name))

\* GPUBreakpoint::matches(event)
matches(bp, event) ==
    LET type_match ==
            CASE bp.type = "Synchronize" -> event.type \in {"StreamSync", "DeviceSync", "EventSync"}
              [] bp.type = "AnyEvent" -> TRUE
              [] OTHER -> event.type = bp.type
    IN  /\ bp.enabled
        /\ type_match
        /\ ~(bp.device_id >= 0 /\ bp.device_id # event.device_id)
        /\ (bp.type \in {"KernelLaunch", "KernelComplete"} /\ bp.kernel_pattern # ""
               => fnmatch(bp.kernel_pattern, event.name))

\* setGPUBreakpoint(bp): [g, ret]
setGPUBreakpoint(g, bp) ==
    LET new_bp == [bp EXCEPT !.id = g.next_gpu_bp_id_, !.hit_count = 0] IN
    [g |-> [g EXCEPT !.next_gpu_bp_id_ = @ + 1, !.gpu_breakpoints_ = Append(@, new_bp)],
     ret |-> new_bp.id]

\* GPUBreakpoint as default-constructed
DefaultGPUBreakpoint ==
    [id |-> -1, type |-> "KernelLaunch", kernel_pattern |-> "", device_id |-> -1,
     enabled |-> TRUE, hit_count |-> 0]

\* startCapture(): profOk is what profiler_->startCapture() returns
startCapture(g, profOk) ==
    IF ~g.initialized_ \/ ~g.profiler_ THEN [g |-> g, ret |-> FALSE]
    ELSE IF g.capturing_ THEN [g |-> g, ret |-> FALSE]
    ELSE IF ~profOk THEN [g |-> [g EXCEPT !.captured_events_ = <<>>], ret |-> FALSE]
    ELSE [g |-> [g EXCEPT !.captured_events_ = <<>>, !.capturing_ = TRUE,
                          !.profiler_capturing = TRUE],
          ret |-> TRUE]

\* a trimming that discards the newest entries instead of the oldest
popFrontWhile_Newest(q, size) == IF Len(q) > size THEN SubSeq(q, 1, size) ELSE q

\* trims a history to its configured size, oldest first
RECURSIVE popFrontWhile(_, _)
popFrontWhile(q, size) == IF Len(q) > size THEN popFrontWhile(Tail(q), size) ELSE q

\* a search that settles for the oldest entry of the kernel history
lastRunning_Oldest(h, corr, i) == IF i = 0 THEN 0 ELSE 1

\* the index of the last entry of the kernel history that is the running launch of corr
RECURSIVE lastRunning(_, _, _)
lastRunning(h, corr, i) ==
    IF i = 0 THEN 0
    ELSE IF h[i].call_id = corr /\ ~(h[i].complete_time > 0) THEN i
    ELSE lastRunning(h, corr, i - 1)

\* addToKernelHistory(event)
addToKernelHistory(g, event) ==
    IF event.type = "KernelLaunch"
    THEN [g EXCEPT !.kernel_history_ =
            popFrontWhile(Append(@, [call_id |-> event.correlation_id,
                                     kernel_name |-> event.name,
                                     launch_time |-> event.timestamp,
                                     complete_time |-> 0,
                                     device_id |-> event.device_id]),
                          g.config_.kernel_history_size)]
    ELSE IF event.type = "KernelComplete"
    THEN LET i == lastRunning(g.kernel_history_, event.correlation_id, Len(g.kernel_history_))
         IN  IF i = 0 THEN g
             ELSE [g EXCEPT !.kernel_history_[i].complete_time = event.timestamp]
    ELSE g

\* a search that keeps the last breakpoint that matches instead of the first
firstMatch_Last(bps, event, i) ==
    LET M == {j \in i..Len(bps) : matches(bps[j], event)} IN
    IF M = {} THEN 0 ELSE CHOOSE j \in M : \A k \in M : k <= j

\* the first breakpoint of the list that matches, 0 when none does
RECURSIVE firstMatch(_, _, _)
firstMatch(bps, event, i) ==
    IF i > Len(bps) THEN 0
    ELSE IF matches(bps[i], event) THEN i
    ELSE firstMatch(bps, event, i + 1)

\* std::nullopt of std::optional<GPUBreakpoint>, and a null GPUBreakpoint*
NoGPUBreakpoint == [nullopt |-> TRUE]

\* GPUStateMachine::processEvent(event).  The state machine's source is not part of
\* src/; of its state the model keeps the events it has been fed, in order, which is
\* what any snapshot of it is a function of.
processEvent(sm, event) == Append(sm, event)

\* handleEvent(event), step by step.  Each step takes the engine as the step before
\* left it.
\* event_history_.push_back(event) and the trimming loop
addToEventHistory(g, event) ==
    [g EXCEPT !.event_history_ = popFrontWhile(Append(@, event), g.config_.event_history_size)]

\* state_machine_->processEvent(event)
feedStateMachine(g, event) == [g EXCEPT !.state_machine_ = processEvent(@, event)]

\* if (capturing_) captured_events_.push_back(event)
storeCaptured(g, event) ==
    IF g.capturing_ THEN [g EXCEPT !.captured_events_ = Append(@, event)] ELSE g

\* bp.hit_count++ on the breakpoint at index i of the list, if i is one
countHit(g, i) ==
    IF i > 0 THEN [g EXCEPT !.gpu_breakpoints_[i].hit_count = @ + 1] ELSE g

\* if (event_callback_) event_callback_(event, matched_bp): [g, matched, callback];
\* callback holds the call made, if any: the event, the breakpoint the pointer refers
\* to, and what the engine's getters show at that moment
fireCallback(g, event, i) ==
    [g |-> g,
     matched |-> i,
     callback |-> IF g.event_callback_
                  THEN <<[event |-> event,
                          matched_bp |-> IF i > 0 THEN g.gpu_breakpoints_[i]
                                         ELSE NoGPUBreakpoint,
                          engine |-> [event_history_ |-> g.event_history_,
                                      state_machine_ |-> g.state_machine_,
                                      kernel_history_ |-> g.kernel_history_]]>>
                  ELSE <<>>]

\* the loop over gpu_breakpoints_ and the callback after it
checkAndFire(g, event, i) == fireCallback(countHit(g, i), event, i)

\* handleEvent(event): [g, matched, callback]; matched is the index of the breakpoint
\* hit, or 0
handleEvent(g, event) ==
    LET g4 == storeCaptured(
                  addToKernelHistory(
                      feedStateMachine(addToEventHistory(g, event), event), event), event)
    IN  checkAndFire(g4, event, firstMatch(g4.gpu_breakpoints_, event, 1))

\* checkBreakpoints(event): [g, ret]; ret is a copy of the breakpoint hit, taken after
\* its hit_count has been incremented
checkBreakpoints(g, event) ==
    LET i == firstMatch(g.gpu_breakpoints_, event, 1) IN
    IF i > 0
    THEN LET g1 == [g EXCEPT !.gpu_breakpoints_[i].hit_count = @ + 1]
         IN  [g |-> g1, ret |-> g1.gpu_breakpoints_[i]]
    ELSE [g |-> g, ret |-> NoGPUBreakpoint]

\* ------------------------------------------------- RSPPacket encode/decode
\* c ^ 0x20 on a character code
xor20(n) == IF (n \div 32) % 2 = 1 THEN n - 32 ELSE n + 32

\* the character codes of a string
RECURSIVE codesOf(_, _, _)
codesOf(str, lo, hi) ==
    IF lo > hi THEN <<>>
    ELSE IF lo = hi THEN <<Ord(Char(str, lo))>>
    ELSE codesOf(str, lo, (lo + hi) \div 2) \o codesOf(str, (lo + hi) \div 2 + 1, hi)
codes(str) == Once(str, LAMBDA s : codesOf(s, 1, Len(s)))

\* an encode that escapes nothing
escape_None(cs) == cs

\* encode(data), first half: '}', '#', '$' and '*' become '}' and the code ^ 0x20
RECURSIVE escapeOf(_, _, _)
escapeOf(cs, lo, hi) ==
    IF lo > hi THEN <<>>
    ELSE IF lo = hi
    THEN (IF cs[lo] \in {125, 35, 36, 42} THEN <<125, xor20(cs[lo])>> ELSE <<cs[lo]>>)
    ELSE escapeOf(cs, lo, (lo + hi) \div 2) \o escapeOf(cs, (lo + hi) \div 2 + 1, hi)
escape(cs) == Once(cs, LAMBDA c : escapeOf(c, 1, Len(c)))

\* checksum(data): the sum of the bytes, modulo 256
RECURSIVE sumOf(_, _, _)
sumOf(cs, lo, hi) ==
    IF lo > hi THEN 0
    ELSE IF lo = hi THEN cs[lo]
    ELSE sumOf(cs, lo, (lo + hi) \div 2) + sumOf(cs, (lo + hi) \div 2 + 1, hi)
checksum(cs) == Once(cs, LAMBDA c : sumOf(c, 1, Len(c)) % 256)

\* encode(data): $<escaped>#<two hex digits of the checksum>
encode(data) ==
    Once(escape(codes(data)),
         LAMBDA escaped : "$" \o bytesToString(escaped) \o "#" \o HexByte(checksum(escaped)))

\* the last position of c in s (1-based), 0 when there is none
RECURSIVE RFind(_, _, _)
RFind(s, c, from) ==
    IF from < 1 THEN 0 ELSE IF Char(s, from) = c THEN from ELSE RFind(s, c, from - 1)

\* decode, second half: '}' followed by a character stands for that character ^ 0x20
RECURSIVE unescapeFrom(_, _)
unescapeFrom(cs, i) ==
    IF i > Len(cs) THEN <<>>
    ELSE IF cs[i] = 125 /\ i + 1 <= Len(cs)
    THEN <<xor20(cs[i + 1])>> \o unescapeFrom(cs, i + 2)
    ELSE <<cs[i]>> \o unescapeFrom(cs, i + 1)
unescape(cs) == Once(cs, LAMBDA c : unescapeFrom(c, 1))

\* decode(packet): [ok, data]; ok is FALSE for std::nullopt
decodeFrame(pkt) ==
    LET none     == [ok |-> FALSE, data |-> ""]
        hash_pos == RFind(pkt, "#", Len(pkt))
        data     == SubSeq(pkt, 2, hash_pos - 1)
        cs_str   == SubSeq(pkt, hash_pos + 1, hash_pos + 2)
    IN  IF Len(pkt) < 4 THEN none
        ELSE IF Char(pkt, 1) # "$" THEN none
        ELSE IF hash_pos < 2 THEN none
        ELSE IF Len(pkt) < hash_pos + 2 THEN none
        ELSE IF stoi16(cs_str) < 0 THEN none
        ELSE IF checksum(codes(data)) # stoi16(cs_str) % 256 THEN none
        ELSE [ok |-> TRUE, data |-> bytesToString(unescape(codes(data)))]
decode(pkt) == Once(pkt, LAMBDA p : decodeFrame(p))

\* encode and decode on the bytes themselves (a std::string holds any byte; the strings
\* above hold only the characters that can be written here)
encodeBytes(data) ==
    LET escaped == escape(data) IN
    <<36>> \o escaped \o <<35>> \o codes(HexByte(checksum(escaped)))

\* rfind('#') on bytes: the last position of b at or before from, 0 when there is none
RECURSIVE RFindByte(_, _, _)
RFindByte(cs, b, from) ==
    IF from < 1 THEN 0 ELSE IF cs[from] = b THEN from ELSE RFindByte(cs, b, from - 1)

\* decode(packet) on bytes: [ok, data]
decodeBytes(pkt) ==
    LET none     == [ok |-> FALSE, data |-> <<>>]
        hash_pos == RFindByte(pkt, 35, Len(pkt))
        data     == SubSeq(pkt, 2, hash_pos - 1)
        cs_str   == Chr(pkt[hash_pos + 1]) \o Chr(pkt[hash_pos + 2])
    IN  IF Len(pkt) < 4 THEN none
        ELSE IF pkt[1] # 36 THEN none
        ELSE IF hash_pos < 2 THEN none
        ELSE IF Len(pkt) < hash_pos + 2 THEN none
        ELSE IF stoi16(cs_str) < 0 THEN none
        ELSE IF checksum(data) # stoi16(cs_str) % 256 THEN none
        ELSE [ok |-> TRUE, data |-> unescape(data)]

\* ------------------------------------------------- RSPHandler: commands
\* std::istringstream >> word, repeated: the whitespace-separated words of a string
RECURSIVE splitWords(_, _, _, _)
splitWords(str, i, cur, acc) ==
    IF i > Len(str) THEN (IF cur = "" THEN acc ELSE Append(acc, cur))
    ELSE IF Char(str, i) \in {" ", "\n"}
    THEN splitWords(str, i + 1, "", IF cur = "" THEN acc ELSE Append(acc, cur))
    ELSE splitWords(str, i + 1, cur \o Char(str, i), acc)
Words(str) == Once(str, LAMBDA s : splitWords(s, 1, "", <<>>))

\* handleMonitor: the words from the third on, joined by single spaces
RECURSIVE joinArgs(_, _)
joinArgs(words, i) ==
    IF i > Len(words) THEN ""
    ELSE IF i = Len(words) THEN words[i]
    ELSE words[i] \o " " \o joinArgs(words, i + 1)

\* a reply handed back as plain text, the hex encoding forgotten
Reply_Plain(g, text) == [g |-> g, response |-> text]

\* what a command handler hands back: the engine and the reply payload
Reply(g, text) == [g |-> g, response |-> toHexStr(text)]

\* handleTSBreakpoint(args), for the actions that set a breakpoint
handleTSBreakpoint(g, args) ==
    Once(Words(args), LAMBDA ws :
    LET action  == IF Len(ws) >= 1 THEN ws[1] ELSE ""
        operand == IF Len(ws) >= 2 THEN ws[2] ELSE ""
        set(bp) == setGPUBreakpoint(g, bp)
        idOf(bp) == ToString(set(bp).ret)
        kernel  == [DefaultGPUBreakpoint EXCEPT !.type = "KernelLaunch",
                                               !.kernel_pattern = operand]
        alloc   == [DefaultGPUBreakpoint EXCEPT !.type = "MemAlloc"]
        free    == [DefaultGPUBreakpoint EXCEPT !.type = "MemFree"]
        sync    == [DefaultGPUBreakpoint EXCEPT !.type = "Synchronize"]
    IN  CASE action = "kernel" ->
               Reply(set(kernel).g,
                     "GPU breakpoint " \o idOf(kernel) \o ": kernel launch"
                        \o (IF operand # "" THEN " '" \o operand \o "'" ELSE "") \o "\n")
          [] action = "alloc" ->
               Reply(set(alloc).g, "GPU breakpoint " \o idOf(alloc) \o ": memory allocation\n")
          [] action = "free" ->
               Reply(set(free).g, "GPU breakpoint " \o idOf(free) \o ": memory free\n")
          [] action = "sync" ->
               Reply(set(sync).g, "GPU breakpoint " \o idOf(sync) \o ": synchronize\n")
          [] action \notin {"memcpy", "list", "delete", "enable", "disable"} ->
               Reply(g, "Usage: monitor ts break <kernel|memcpy|alloc|free|sync|list|delete|enable|disable>\n"))

\* handleTSTraceStart()
handleTSTraceStart(g, profOk) ==
    LET r == startCapture(g, profOk) IN
    IF r.ret THEN Reply(r.g, "GPU trace capture started\n")
    ELSE Reply(r.g, "Failed to start trace capture\n")

\* the monitor subcommands whose handlers are modelled here
MonitorModelled == {"break", "trace"}
MonitorOthers == {"help", "status", "devices", "memory", "kernels", "kernel-search",
                  "streams", "gpu", "allocs", "replay"}

\* handleMonitor(cmd)
handleMonitor(g, cmd, profOk) ==
    Once(Words(cmd), LAMBDA words :
    LET subcmd == words[2]
        args   == joinArgs(words, 3)
    IN  IF words = <<>> THEN Reply(g, "Error: empty command\n")
        ELSE IF words[1] # "ts"
        THEN Reply(g, "Error: unknown command. Use 'monitor ts help'\n")
        ELSE CASE Len(words) >= 2 /\ subcmd = "break" -> handleTSBreakpoint(g, args)
               [] Len(words) >= 2 /\ subcmd = "trace" /\ args = "start" ->
                      handleTSTraceStart(g, profOk)
               [] Len(words) >= 2 /\ subcmd \notin (MonitorModelled \cup MonitorOthers) ->
                      Reply(g, "Error: unknown command '" \o subcmd \o "'\n"))

\* handleQuery(query): [g, response, threw]; config_.max_packet_size is 16384 = 0x4000
handleQuery(st, query, profOk) ==
    Once(RSPQuery_parse(query), LAMBDA q :
    LET plain(r) == [g |-> st.g, response |-> r, threw |-> FALSE]
    IN  CASE q.name = "Supported" ->
               plain("PacketSize=4000;qXfer:features:read+;QStartNoAckMode+;multiprocess+")
          [] q.name = "Attached" -> plain("1")
          [] q.name = "sThreadInfo" -> plain("l")
          [] q.name = "C" -> plain("QC" \o stdHex(st.w.p.current_thread_))
          [] q.name = "Rcmd" ->
               IF q.args = <<>> THEN plain("E01")
               ELSE Once(fromHex(q.args[1]), LAMBDA bytes :
                    IF bytes.threw THEN [g |-> st.g, response |-> "", threw |-> TRUE]
                    ELSE Once(handleMonitor(st.g, bytesToString(bytes.bytes), profOk),
                              LAMBDA r : [g |-> r.g, response |-> r.response,
                                          threw |-> FALSE]))
          [] q.name \notin {"Supported", "Attached", "fThreadInfo", "sThreadInfo", "C", "Rcmd"} ->
               plain(""))

\* handleQuerySet(query): [no_ack_mode_, response]
handleQuerySet(st, query) ==
    IF RSPQuery_parse(query).name = "StartNoAckMode"
    THEN [no_ack_mode_ |-> TRUE, response |-> "OK"]
    ELSE [no_ack_mode_ |-> st.no_ack_mode_, response |-> ""]

\* handleBreakpoint(op, type, addr, kind): [w, response]
handleBreakpoint(w, op, type, addr, fault) ==
    IF type # 0 THEN [w |-> w, response |-> ""]
    ELSE IF op = "Z"
    THEN LET r == setBreakpoint(w, addr, fault) IN
         [w |-> r.w, response |-> IF r.ret >= 0 THEN "OK" ELSE "E01"]
    ELSE LET r == removeBreakpointAt(w, addr, fault) IN
         [w |-> r.w, response |-> IF r.ret THEN "OK" ELSE "E01"]

\* handleVCommand(cmd): which of handleContinue ("c"), handleStep ("s") it enters, or
\* the reply it gives at once
handleVCommand(cmd) ==
    LET action == Substr(cmd, 6) IN
    IF Len(cmd) >= 5 /\ SubSeq(cmd, 1, 5) = "Cont;" /\ action # "" /\ Char(action, 1) = "c"
    THEN [resume |-> "c", response |-> ""]
    ELSE IF Len(cmd) >= 5 /\ SubSeq(cmd, 1, 5) = "Cont;" /\ action # "" /\ Char(action, 1) = "s"
    THEN [resume |-> "s", response |-> ""]
    ELSE IF Len(cmd) >= 5 /\ SubSeq(cmd, 1, 5) = "Cont?"
    THEN [resume |-> "", response |-> "vCont;c;C;s;S"]
    ELSE [resume |-> "", response |-> ""]

\* handleStopReason()
handleStopReason == "S05"

\* handlePacket(packet): [w, g, no_ack_mode_, response, resume, threw].  resume is "c"
\* or "s" when the packet enters handleContinue or handleStep, whose first half
\* (onProcessResume, continueExecution or singleStep) is done here and whose second
\* half runs when waitpid returns; threw tells that an exception left the handler.
\* The register, memory and thread packets (g G m M H T) are not modelled.
handlePacket(st, pkt, fault, profOk) ==
    LET type == parseType(pkt)
        out(w, g, noack, response, resume, threw) ==
            [w |-> w, g |-> g, no_ack_mode_ |-> noack, response |-> response,
             resume |-> resume, threw |-> threw]
        reply(response) == out(st.w, st.g, st.no_ack_mode_, response, "", FALSE)
        cont(signal) == out(continueExecution(st.w, signal).w, st.g, st.no_ack_mode_,
                            "", "c", FALSE)
        step(signal) == out(singleStep(st.w, signal).w, st.g, st.no_ack_mode_,
                            "", "s", FALSE)
        comma1 == Find(pkt, ",", 1)
        comma2 == Find(pkt, ",", comma1 + 1)
    IN  IF pkt = "" THEN reply("")
        ELSE CASE type = "Continue" -> cont(0)
          [] type = "ContinueSignal" -> cont(hexToUint64(SubSeq(pkt, 2, 3)))
          [] type = "Step" -> step(0)
          [] type = "StepSignal" -> step(hexToUint64(SubSeq(pkt, 2, 3)))
          [] type = "Kill" -> out(kill(st.w).w, st.g, st.no_ack_mode_, "OK", "", FALSE)
          [] type = "Detach" ->
                out(detach(st.w, fault).w, st.g, st.no_ack_mode_, "OK", "", FALSE)
          [] type \in {"InsertBreakpoint", "RemoveBreakpoint"} ->
                IF Len(pkt) < 5 THEN reply("E01")
                ELSE IF comma1 = 0 \/ comma2 = 0 THEN reply("E01")
                ELSE Once(handleBreakpoint(st.w, Char(pkt, 1),
                                           Ord(Char(pkt, 2)) - Ord("0"),
                                           hexToUint64(SubSeq(pkt, comma1 + 1, comma2 - 1)),
                                           fault),
                          LAMBDA r : out(r.w, st.g, st.no_ack_mode_, r.response, "", FALSE))
          [] type = "Query" ->
                Once(handleQuery(st, Substr(pkt, 2), profOk),
                     LAMBDA r : out(st.w, r.g, st.no_ack_mode_, r.response, "", r.threw))
          [] type = "QuerySet" ->
                LET r == handleQuerySet(st, Substr(pkt, 2)) IN
                out(st.w, st.g, r.no_ack_mode_, r.response, "", FALSE)
          [] type = "VCommand" ->
                LET r == handleVCommand(Substr(pkt, 2)) IN
                IF r.resume = "c" THEN cont(0)
                ELSE IF r.resume = "s" THEN step(0)
                ELSE reply(r.response)
          [] type = "RestartReason" -> reply(handleStopReason)
          [] type = "ExtendedMode" -> reply("OK")
          [] type \in {"BinaryWrite", "Ack", "Nack", "Unknown"} -> reply("")

\* ------------------------------------------------------------ the system
\* the state after initialize(args) has spawned the target, which stops at its first
\* instruction, and run() has accepted the client
InitProcess ==
    [pid_ |-> SetMin(Pids), current_thread_ |-> SetMin(Pids), attached_ |-> TRUE,
     breakpoints_ |-> EmptyMap, addr_to_bp_ |-> EmptyMap, next_bp_id_ |-> 1]
InitTarget ==
    [pid |-> SetMin(Pids), mem |-> Program, rip |-> 0, state |-> "stopped",
     wstatus |-> NoStatus, sigstop |-> FALSE]
\* ------------------------------------------------------ capture adapters
\* The object profiler_ points to, as ROCmProfiler() or AscendProfiler() and
\* initialize(config) leave it.  capturing_ stands for is_running_ and
\* events_captured_ for stats_.total_events when the adapter is the Ascend one;
\* callback_ tells whether GPUDebugEngine::initialize has installed its lambda.
InitProfiler(platform, buffer_size) ==
    [platform |-> platform, initialized_ |-> TRUE, capturing_ |-> FALSE,
     events_ |-> <<>>, events_captured_ |-> 0, events_dropped_ |-> 0,
     callback_ |-> TRUE, buffer_size |-> buffer_size]

\* ------------------------------------------------------------ trace replay
\* ReplayState{}
DefaultReplayState ==
    [active |-> FALSE, paused |-> FALSE, current_event_index |-> 0, total_events |-> 0,
     current_timestamp |-> 0, total_duration |-> 0, trace_file |-> ""]

\* replay_events_[i] for the size_t index i, which counts from 0
EventAt(events, i) == events[i + 1]

\* loadTrace(filename): [g, ret].  file is what SBTReader makes of the file: whether
\* it opens and is valid, whether readAll succeeds, and the events of the record.
loadTrace(g, file) ==
    IF ~file.valid THEN [g |-> g, ret |-> FALSE]
    ELSE IF ~file.readable \/ file.events = <<>>
    THEN [g |-> [g EXCEPT !.replay_events_ = <<>>], ret |-> FALSE]
    ELSE [g |-> [g EXCEPT !.replay_events_ = file.events,
                          !.replay_state_ =
                              [trace_file |-> file.name,
                               total_events |-> Len(file.events),
                               current_event_index |-> 0,
                               current_timestamp |-> file.events[1].timestamp,
                               total_duration |-> file.events[Len(file.events)].timestamp
                                                  - file.events[1].timestamp,
                               active |-> FALSE,
                               paused |-> FALSE]],
          ret |-> TRUE]

\* a StepEvent that moves the index and leaves the timestamp alone
stepEvent_IndexOnly(events, rs) ==
    IF rs.current_event_index < Len(events)
    THEN [rs EXCEPT !.current_event_index = @ + 1]
    ELSE rs

\* controlReplay, case StepEvent
stepEvent(events, rs) ==
    IF rs.current_event_index < Len(events)
    THEN IF rs.current_event_index + 1 < Len(events)
         THEN [rs EXCEPT !.current_event_index = @ + 1,
                         !.current_timestamp =
                             EventAt(events, rs.current_event_index + 1).timestamp]
         ELSE [rs EXCEPT !.current_event_index = @ + 1]
    ELSE rs

\* controlReplay, case StepKernel: the while loop
RECURSIVE stepKernel(_, _)
stepKernel(events, rs) ==
    IF rs.current_event_index < Len(events)
    THEN IF /\ rs.current_event_index + 1 < Len(events)
            /\ EventAt(events, rs.current_event_index + 1).type = "KernelLaunch"
         THEN [rs EXCEPT !.current_event_index = @ + 1,
                         !.current_timestamp =
                             EventAt(events, rs.current_event_index + 1).timestamp]
         ELSE stepKernel(events, [rs EXCEPT !.current_event_index = @ + 1])
    ELSE rs

\* controlReplay, case GotoTimestamp: the for loop from i on
RECURSIVE gotoTimestamp(_, _, _, _)
gotoTimestamp(events, rs, target_timestamp, i) ==
    IF i < Len(events)
    THEN IF EventAt(events, i).timestamp >= target_timestamp
         THEN [rs EXCEPT !.current_event_index = i,
                         !.current_timestamp = EventAt(events, i).timestamp]
         ELSE gotoTimestamp(events, rs, target_timestamp, i + 1)
    ELSE rs

\* controlReplay, case GotoEvent
gotoEvent(events, rs, target_event_index) ==
    IF target_event_index < Len(events)
    THEN [rs EXCEPT !.current_event_index = target_event_index,
                    !.current_timestamp = EventAt(events, target_event_index).timestamp]
    ELSE rs

\* controlReplay(control): [g, ret]
controlReplay(g, control) ==
    IF g.replay_events_ = <<>> THEN [g |-> g, ret |-> FALSE]
    ELSE [g |-> [g EXCEPT !.replay_state_ =
                    CASE control.command = "Start" ->
                            [@ EXCEPT !.active = TRUE, !.paused = FALSE,
                                      !.current_event_index = 0]
                      [] control.command = "Stop" ->
                            [@ EXCEPT !.active = FALSE, !.paused = FALSE,
                                      !.current_event_index = 0]
                      [] control.command = "Pause" -> [@ EXCEPT !.paused = TRUE]
                      [] control.command = "Resume" -> [@ EXCEPT !.paused = FALSE]
                      [] control.command = "StepEvent" -> stepEvent(g.replay_events_, @)
                      [] control.command = "StepKernel" -> stepKernel(g.replay_events_, @)
                      [] control.command = "GotoTimestamp" ->
                            gotoTimestamp(g.replay_events_, @, control.target_timestamp, 0)
                      [] control.command = "GotoEvent" ->
                            gotoEvent(g.replay_events_, @, control.target_event_index)],
          ret |-> TRUE]

\* std::nullopt of std::optional<TraceEvent>
NoTraceEvent == [nullopt |-> TRUE]

\* getCurrentReplayEvent()
getCurrentReplayEvent(g) ==
    IF ~g.replay_state_.active \/ g.replay_state_.current_event_index >= Len(g.replay_events_)
    THEN NoTraceEvent
    ELSE EventAt(g.replay_events_, g.replay_state_.current_event_index)

\* GPUDebugConfig{}
DefaultConfig ==
    [kernel_history_size |-> kernel_history_size, event_history_size |-> event_history_size]
InitEngine ==
    [initialized_ |-> TRUE, profiler_ |-> TRUE, profiler_capturing |-> FALSE,
     capturing_ |-> FALSE, gpu_breakpoints_ |-> <<>>, next_gpu_bp_id_ |-> 1,
     event_history_ |-> <<>>, kernel_history_ |-> <<>>, captured_events_ |-> <<>>,
     config_ |-> DefaultConfig, state_machine_ |-> <<>>, event_callback_ |-> FALSE,
     adapter |-> InitProfiler("ROCm", 0),
     replay_events_ |-> <<>>, replay_state_ |-> DefaultReplayState]
InitEnv ==
    [sent |-> 0, owes |-> FALSE, intr |-> 0, stopRequested |-> FALSE, gpu |-> 0, calls |-> 0]
InitObs ==
    [gpuHit |-> FALSE, event |-> NoEvent, intrRun |-> FALSE, preset |-> EmptyMap,
     unset |-> {}, exited |-> FALSE, written |-> EmptyMap]

Init ==
    /\ pc = "top"
    /\ running_ = TRUE
    /\ no_ack_mode_ = FALSE
    /\ packet = ""
    /\ resuming = ""
    /\ inbound = <<>>
    /\ peerClosed = FALSE
    /\ tx = <<>>
    /\ process_ = InitProcess
    /\ target = InitTarget
    /\ gpu_engine_ = InitEngine
    /\ env = InitEnv
    /\ obs = InitObs

World == [p |-> process_, t |-> target]

\* history of the breakpoint calls: preset keeps the byte an address held when a
\* breakpoint was registered on it, unset the addresses whose breakpoint a call has
\* since removed or disabled while the controller stayed attached
Track(o, before, after) ==
    LET armed(w, a) == hasBreakpointAt(w.p, a)
        known(w, a) == a \in DOMAIN w.p.addr_to_bp_
        fresh  == {a \in Addrs : ~known(before, a) /\ known(after, a)}
        gone   == {a \in Addrs : armed(before, a) /\ ~armed(after, a) /\ after.p.attached_}
        rearm  == {a \in Addrs : ~armed(before, a) /\ armed(after, a)}
    IN  [o EXCEPT !.preset = [a \in (DOMAIN @) \cup fresh |->
                                 IF a \in fresh THEN before.t.mem[a] ELSE @[a]],
                  !.unset = (@ \ rearm) \cup gone,
                  !.written = [a \in {b \in DOMAIN @ : armed(after, b)} |-> @[a]]]

\* run(): the test of running_ at the head of the loop, and what follows the loop
LoopTop ==
    /\ pc = "top"
    /\ IF running_
       THEN /\ pc' = "recv"
            /\ tx' = <<>>
            /\ packet' = ""
            /\ obs' = [obs EXCEPT !.gpuHit = FALSE, !.event = NoEvent, !.intrRun = FALSE]
            /\ UNCHANGED running_
       ELSE /\ pc' = "done"
            /\ running_' = FALSE
            /\ UNCHANGED <<tx, packet, obs>>
    /\ UNCHANGED <<no_ack_mode_, resuming, inbound, peerClosed, process_, target,
                   gpu_engine_, env>>

\* receivePacket(), first loop: a byte that is not '$' is read and dropped; 0x03 calls
\* process_->interrupt()
RecvSkip ==
    /\ pc = "recv"
    /\ inbound # <<>>
    /\ Head(inbound).kind = "byte"
    /\ inbound' = Tail(inbound)
    /\ IF Head(inbound).c = "ETX"
       THEN LET r == interrupt(World) IN process_' = r.w.p /\ target' = r.w.t
       ELSE UNCHANGED <<process_, target>>
    /\ UNCHANGED <<pc, running_, no_ack_mode_, packet, resuming, peerClosed, tx,
                   gpu_engine_, env, obs>>

\* receivePacket(): read returns 0 at the end of the stream; run() leaves the loop
RecvEof ==
    /\ pc = "recv"
    /\ inbound = <<>>
    /\ peerClosed
    /\ pc' = "done"
    /\ running_' = FALSE
    /\ UNCHANGED <<no_ack_mode_, packet, resuming, inbound, peerClosed, tx, process_,
                   target, gpu_engine_, env, obs>>

\* where run() goes once a reply has been written: sendPacket waits for the ack
\* unless no_ack_mode_ is set
AfterSend(noack) == IF noack THEN "top" ELSE "ack"

\* what the operating system and the profiler may answer while a packet is handled:
\* a ptrace call can fail only where the handler makes one, the profiler's
\* startCapture only where a monitor command can reach it
FaultsFor(pkt) ==
    IF parseType(pkt) \in {"InsertBreakpoint", "RemoveBreakpoint", "Detach"} THEN Faults
    ELSE {"none"}
ProfilerFor(pkt) == IF parseType(pkt) = "Query" THEN BOOLEAN ELSE {TRUE}

\* receivePacket() from the '$' on, then handlePacket and sendPacket
RecvPacket ==
    /\ pc = "recv"
    /\ inbound # <<>>
    /\ Head(inbound).kind = "pkt"
    /\ inbound' = Tail(inbound)
    /\ \E decoded \in {decode(Head(inbound).frame)} :
       IF ~decoded.ok
       THEN /\ tx' = Append(tx, "-")
            /\ pc' = "done"
            /\ running_' = FALSE
            /\ UNCHANGED <<no_ack_mode_, packet, resuming, process_, target, gpu_engine_,
                           env, obs>>
       ELSE LET tx1 == IF ~no_ack_mode_ THEN Append(tx, "+") ELSE tx IN
            IF decoded.data = ""
            THEN /\ tx' = tx1
                 /\ pc' = "done"
                 /\ running_' = FALSE
                 /\ UNCHANGED <<no_ack_mode_, packet, resuming, process_, target,
                                gpu_engine_, env, obs>>
            ELSE \E fault \in FaultsFor(decoded.data), profOk \in ProfilerFor(decoded.data) :
                 \E r \in {handlePacket([w |-> World, g |-> gpu_engine_,
                                          no_ack_mode_ |-> no_ack_mode_],
                                         decoded.data, fault, profOk)} :
                     /\ packet' = decoded.data
                     /\ process_' = r.w.p
                     /\ target' = r.w.t
                     /\ gpu_engine_' = r.g
                     /\ no_ack_mode_' = r.no_ack_mode_
                     /\ resuming' = r.resume
                     /\ obs' = Track(obs, World, r.w)
                     /\ UNCHANGED running_
                     /\ IF r.threw THEN pc' = "aborted" /\ tx' = tx1 /\ UNCHANGED env
                        ELSE IF r.resume # "" THEN pc' = "wait" /\ tx' = tx1 /\ UNCHANGED env
                        ELSE IF r.response = "" THEN pc' = "top" /\ tx' = tx1 /\ UNCHANGED env
                        ELSE /\ tx' = Append(tx1, encode(r.response))
                             /\ pc' = AfterSend(r.no_ack_mode_)
                             /\ env' = [env EXCEPT !.owes = ~no_ack_mode_]
    /\ UNCHANGED peerClosed

\* handleContinue/handleStep, second half: waitpid has returned; the stop reply is sent
WaitStop ==
    /\ pc = "wait"
    /\ ~isAttached(process_) \/ WaitReturns(target)
    /\ \E r \in {waitForStop(World)} :
       /\ process_' = r.w.p
       /\ target' = r.w.t
       /\ tx' = Append(tx, encode(formatStopReply(r.event)))
       /\ obs' = [obs EXCEPT !.event = r.event,
                             !.exited = @ \/ r.event.reason = "Exited"]
    /\ resuming' = ""
    /\ pc' = AfterSend(no_ack_mode_)
    /\ env' = [env EXCEPT !.owes = ~no_ack_mode_]
    /\ UNCHANGED <<running_, no_ack_mode_, packet, inbound, peerClosed, gpu_engine_>>

\* waitForAck(): one read; whatever it yields, run() goes on.  When the byte read is
\* the '$' of a packet the rest of that packet is dropped by the next receivePacket.
AckRead ==
    /\ pc = "ack"
    /\ inbound # <<>> \/ peerClosed
    /\ inbound' = IF inbound # <<>> THEN Tail(inbound) ELSE inbound
    /\ pc' = "top"
    /\ UNCHANGED <<running_, no_ack_mode_, packet, resuming, peerClosed, tx, process_,
                   target, gpu_engine_, env, obs>>

\* ----------------------------------------------------------- environment
\* the frames the client may send: status, continue, step, kill, detach, a software
\* breakpoint set and cleared at address 1, no-ack mode, a binary write, an empty
\* payload, the monitor commands "ts break kernel k*" and "ts trace start" (hex after
\* "qRcmd:", the form RSPQuery::parse splits off), a monitor command that is not hex,
\* and a frame whose checksum digits do not match its payload
BadFrame == "$?#00"
Frames ==
    {"$?#3f",
     "$c#63",
     "$s#73",
     "$k#6b",
     "$D#44",
     "$Z0,1,1#44",
     "$z0,1,1#64",
     "$QStartNoAckMode#b0",
     "$X0,1:a#80",
     "$#00",
     "$qRcmd:747320627265616b206b65726e656c206b2a#9d",
     "$qRcmd:7473207472616365207374617274#e9",
     "$qRcmd:x#a9",
     BadFrame}

\* the events the profiler may deliver
GpuEvents ==
    {[type |-> "KernelLaunch", name |-> "k1", device_id |-> 0, correlation_id |-> 1,
      timestamp |-> 1],
     [type |-> "MemAlloc", name |-> "", device_id |-> 0, correlation_id |-> 2,
      timestamp |-> 1]}

\* the client writes a whole packet; it talks half-duplex, as gdb does: it has acked
\* what it received, nothing of it is still unread, and no resume is outstanding
ClientSend ==
    /\ ~peerClosed
    /\ env.sent < MaxPackets
    /\ inbound = <<>>
    /\ ~env.owes
    /\ resuming = ""
    /\ pc \notin {"done", "aborted"}
    /\ \E f \in Frames : inbound' = Append(inbound, [kind |-> "pkt", frame |-> f])
    /\ env' = [env EXCEPT !.sent = @ + 1]
    /\ UNCHANGED <<pc, running_, no_ack_mode_, packet, resuming, peerClosed, tx, process_,
                   target, gpu_engine_, obs>>

\* the client acknowledges the reply it has received, or asks for it again
ClientAck ==
    /\ ~peerClosed
    /\ env.owes
    /\ \E c \in {"+", "-"} : inbound' = Append(inbound, [kind |-> "byte", c |-> c])
    /\ env' = [env EXCEPT !.owes = FALSE]
    /\ UNCHANGED <<pc, running_, no_ack_mode_, packet, resuming, peerClosed, tx, process_,
                   target, gpu_engine_, obs>>

\* the client writes the interrupt byte 0x03
ClientInterrupt ==
    /\ ~peerClosed
    /\ env.intr < MaxInterrupts
    /\ pc \notin {"done", "aborted"}
    /\ inbound' = Append(inbound, [kind |-> "byte", c |-> "ETX"])
    /\ env' = [env EXCEPT !.intr = @ + 1]
    /\ obs' = [obs EXCEPT !.intrRun = @ \/ resuming # ""]
    /\ UNCHANGED <<pc, running_, no_ack_mode_, packet, resuming, peerClosed, tx, process_,
                   target, gpu_engine_>>

\* the client closes the connection
ClientClose ==
    /\ ~peerClosed
    /\ pc \notin {"done", "aborted"}
    /\ peerClosed' = TRUE
    /\ UNCHANGED <<pc, running_, no_ack_mode_, packet, resuming, inbound, tx, process_,
                   target, gpu_engine_, env, obs>>

\* signalHandler: SIGINT or SIGTERM reaches the server, which calls stop()
ExternalStop ==
    /\ ~env.stopRequested
    /\ pc \notin {"done", "aborted"}
    /\ running_' = FALSE
    /\ env' = [env EXCEPT !.stopRequested = TRUE]
    /\ UNCHANGED <<pc, no_ack_mode_, packet, resuming, inbound, peerClosed, tx, process_,
                   target, gpu_engine_, obs>>

\* the traced process executes one instruction
TargetExec ==
    /\ target.state \in {"running", "stepping"}
    /\ target' = targetExec(target)
    /\ UNCHANGED <<pc, running_, no_ack_mode_, packet, resuming, inbound, peerClosed, tx,
                   process_, gpu_engine_, env, obs>>

\* the kernel delivers the pending SIGSTOP to the traced process
TargetSigStop ==
    /\ target.state \in {"running", "stepping"}
    /\ target.sigstop
    /\ target' = targetSignalStop(target, SIGSTOP)
    /\ UNCHANGED <<pc, running_, no_ack_mode_, packet, resuming, inbound, peerClosed, tx,
                   process_, gpu_engine_, env, obs>>

\* the detached process runs on
TargetExecDetached ==
    /\ target.state = "detached"
    /\ target' = targetExecDetached(target)
    /\ UNCHANGED <<pc, running_, no_ack_mode_, packet, resuming, inbound, peerClosed, tx,
                   process_, gpu_engine_, env, obs>>

\* the profiler's thread calls the event callback, which is handleEvent
GpuEvent ==
    /\ gpu_engine_.profiler_capturing
    /\ env.gpu < MaxGpuEvents
    /\ \E event \in GpuEvents :
         LET r == handleEvent(gpu_engine_, event) IN
         /\ gpu_engine_' = r.g
         /\ obs' = [obs EXCEPT !.gpuHit = @ \/ (/\ r.matched > 0
                                                /\ resuming # ""
                                                /\ target.state \in {"running", "stepping"})]
    /\ env' = [env EXCEPT !.gpu = @ + 1]
    /\ UNCHANGED <<pc, running_, no_ack_mode_, packet, resuming, inbound, peerClosed, tx,
                   process_, target>>

StubStep == LoopTop \/ RecvSkip \/ RecvEof \/ RecvPacket \/ WaitStop \/ AckRead

Next ==
    \/ LoopTop
    \/ RecvSkip
    \/ RecvEof
    \/ RecvPacket
    \/ WaitStop
    \/ AckRead
    \/ ClientSend
    \/ ClientAck
    \/ ClientInterrupt
    \/ ClientClose
    \/ ExternalStop
    \/ TargetExec
    \/ TargetSigStop
    \/ TargetExecDetached
    \/ GpuEvent

Spec == Init /\ [][Next]_vars

\* the server's thread keeps running and the kernel delivers a pending signal; the
\* client and the target's program owe no progress
FairSpec == Spec /\ WF_vars(StubStep) /\ WF_vars(TargetSigStop)

\* ---------------------------------------------------------------- claims
\* what the stub has written while it handled the current packet
Written == {tx[i] : i \in 1..Len(tx)}
ReplyPackets == {i \in 1..Len(tx) : Char(tx[i], 1) = "$"}
LastWritten == tx[Len(tx)]

\* C1: when run() is back at the head of its loop after a well-formed packet, exactly
\* one reply packet has been written for that packet.
C1_OneReplyPerPacket ==
    (pc = "top" /\ packet # "") => Cardinality(ReplyPackets) = 1

\* C2: a checksum mismatch is answered with '-' and the session goes on: the loop of
\* run() has not been left when the last thing written is the NACK.
C2_NackKeepsSession ==
    (tx # <<>> /\ LastWritten = "-") => pc # "done"

\* C3: once 'k' or 'D' has been processed and run() is back at the head of its loop,
\* running_ is false, so that the loop is left.
C3_KillDetachEndsLoop ==
    (pc = "top" /\ packet \in {"k", "D"}) => ~running_

\* C4: once stop() has been called from outside, run() eventually leaves its loop.
C4_StopEndsLoop ==
    env.stopRequested ~> (pc = "done")

\* C5: a resume after a breakpoint hit carries the target past the breakpoint address;
\* the target's code being a straight line, no breakpoint is then hit twice.
C5_ResumeAdvancesPastBreakpoint ==
    \A id \in DOMAIN process_.breakpoints_ : process_.breakpoints_[id].hit_count <= 1

\* C6: when a GPU breakpoint has matched an event while the target ran under a resume,
\* the reply to that resume is a T05 stop reply naming a thread.
C6_GpuBreakpointReported ==
    (obs.gpuHit /\ resuming = "" /\ pc \in {"ack", "top"})
        => (Len(LastWritten) >= 11 /\ SubSeq(LastWritten, 1, 11) = "$T05thread:")

\* C7: a 0x03 the client sends while a resume is outstanding leads to the resume being
\* answered.
C7_InterruptAnswersResume ==
    (obs.intrRun /\ resuming # "") ~> (resuming = "")

\* the signal that stopped the target in a stop event
StoppingSignal(event) == IF event.reason = "Breakpoint" THEN SIGTRAP ELSE event.signal

\* C8: the reply to a stop by a signal or a software breakpoint is 'T', the two hex
\* digits of the stopping signal, "thread:", the thread id in hexadecimal, and ';'.
C8_StopReplyFormat ==
    (pc \in {"ack", "top"} /\ obs.event.reason \in {"Breakpoint", "Signal"})
        => LastWritten = encode(stopReplyThread(StoppingSignal(obs.event),
                                                obs.event.thread_id))

\* C9: with no-ack mode accepted the stub does not wait for an acknowledgement, and it
\* writes neither '+' nor '-' for the packets that follow the QStartNoAckMode.
C9_NoAckModeSilent ==
    no_ack_mode_ =>
        /\ pc # "ack"
        /\ packet # "QStartNoAckMode" => ("+" \notin Written /\ "-" \notin Written)

\* ------------------------------------------- the controller used directly
\* ProcessController is a public class: a caller other than the RSP stub may issue its
\* operations in any order.  The process has been spawned and is stopped at its first
\* instruction.
PCInit ==
    /\ pc = "api"
    /\ running_ = FALSE
    /\ no_ack_mode_ = FALSE
    /\ packet = ""
    /\ resuming = ""
    /\ inbound = <<>>
    /\ peerClosed = FALSE
    /\ tx = <<>>
    /\ process_ = InitProcess
    /\ target = InitTarget
    /\ gpu_engine_ = InitEngine
    /\ env = InitEnv
    /\ obs = InitObs

\* the ids a caller may hold
BpIds == 1..MaxCalls

\* a call has returned r.w as the new state of the controller and of the process
Called(r) ==
    /\ pc = "api"
    /\ env.calls < MaxCalls
    /\ process_' = r.w.p
    /\ target' = r.w.t
    /\ obs' = Track(obs, World, r.w)
    /\ env' = [env EXCEPT !.calls = @ + 1]
    /\ UNCHANGED <<pc, running_, no_ack_mode_, packet, resuming, inbound, peerClosed, tx,
                   gpu_engine_>>

CallSetBreakpoint ==
    \E addr \in Addrs, fault \in Faults : Called(setBreakpoint(World, addr, fault))
CallRemoveBreakpoint ==
    \E id \in BpIds, fault \in Faults : Called(removeBreakpoint(World, id, fault))
CallRemoveBreakpointAt ==
    \E addr \in Addrs, fault \in Faults : Called(removeBreakpointAt(World, addr, fault))
CallEnableBreakpoint ==
    \E id \in BpIds, enable \in BOOLEAN, fault \in Faults :
        Called(enableBreakpoint(World, id, enable, fault))
CallContinue == Called(continueExecution(World, 0))
CallSingleStep == Called(singleStep(World, 0))
CallInterrupt == Called(interrupt(World))
CallDetach == \E fault \in Faults : Called(detach(World, fault))
CallKill == Called(kill(World))
\* waitForStop() returns once waitpid does
CallWaitForStop ==
    /\ ~isAttached(process_) \/ WaitReturns(target)
    /\ Called(waitForStop(World))

PCNext ==
    \/ CallSetBreakpoint
    \/ CallRemoveBreakpoint
    \/ CallRemoveBreakpointAt
    \/ CallEnableBreakpoint
    \/ CallContinue
    \/ CallSingleStep
    \/ CallInterrupt
    \/ CallDetach
    \/ CallKill
    \/ CallWaitForStop
    \/ TargetExec
    \/ TargetSigStop
    \/ TargetExecDetached

PCSpec == PCInit /\ [][PCNext]_vars

\* C10: while the process exists, an address whose breakpoint has been removed or
\* disabled holds the byte it held before the breakpoint was set.
C10_ByteRestored ==
    target.state \notin {"zombie", "gone"}
        => \A a \in obs.unset : target.mem[a] = obs.preset[a]

\* the tracee has stopped with rip one past address a, where an enabled breakpoint is
\* registered, and waitpid has not yet handed the stop over
StopsPastBreakpoint(a) ==
    /\ isAttached(process_)
    /\ target.wstatus.k = "stop"
    /\ target.rip = a + 1
    /\ hasBreakpointAt(process_, a)

\* what the claim asks of waitForStop for the breakpoint at a: rip rewound to a, and
\* the hit count of that breakpoint one higher
RewoundAndHit(a) ==
    LET id == process_.addr_to_bp_[a] IN
    /\ target'.rip = a
    /\ id \in DOMAIN process_'.breakpoints_
    /\ process_'.breakpoints_[id].hit_count = process_.breakpoints_[id].hit_count + 1

C12_DetachRestoresBytes ==
    (~process_.attached_ /\ target.state \notin {"zombie", "gone"})
        => \A a \in DOMAIN obs.preset : target.mem[a] # TRAP

\* the attachment and the breakpoint bookkeeping of the controller are as they were
KeepsSubState ==
    /\ process_'.pid_ = process_.pid_
    /\ process_'.attached_ = process_.attached_
    /\ process_'.current_thread_ = process_.current_thread_
    /\ process_'.breakpoints_ = process_.breakpoints_
    /\ process_'.addr_to_bp_ = process_.addr_to_bp_

\* the ptrace request inside the call fails: the trap cannot be written / the byte
\* cannot be restored
InsertFails(addr, fault) == ~insertBreakpointInstruction(World, addr, 0, fault).ok
RestoreFails(id, fault) ==
    /\ id \in DOMAIN process_.breakpoints_
    /\ ~removeBreakpointInstruction(World, process_.breakpoints_[id].address,
                                    process_.breakpoints_[id].original_byte, fault).ok

\* C13: a breakpoint operation whose ptrace request fails returns the failure value
\* (-1 or false) and leaves the attachment and the breakpoint bookkeeping unchanged.
C13_FailureKeepsState ==
    [][/\ \A addr \in Addrs, fault \in Faults :
            (/\ Called(setBreakpoint(World, addr, fault))
             /\ isAttached(process_) /\ addr \notin DOMAIN process_.addr_to_bp_
             /\ InsertFails(addr, fault))
                => (setBreakpoint(World, addr, fault).ret = -1 /\ KeepsSubState)
       /\ \A id \in BpIds, fault \in Faults :
            (/\ Called(removeBreakpoint(World, id, fault))
             /\ RestoreFails(id, fault) /\ process_.breakpoints_[id].enabled)
                => (~removeBreakpoint(World, id, fault).ret /\ KeepsSubState)
       /\ \A id \in BpIds, fault \in Faults :
            (/\ Called(enableBreakpoint(World, id, FALSE, fault))
             /\ RestoreFails(id, fault) /\ process_.breakpoints_[id].enabled)
                => (~enableBreakpoint(World, id, FALSE, fault).ret /\ KeepsSubState)
      ]_vars

\* packets of the model that carry invalid input: a monitor command that is not hex
InvalidInputs == {"qRcmd:x"}

\* C14: a packet with invalid input is answered with one reply packet; it neither
\* aborts the dispatch nor ends the session.
C14_InvalidInputReported ==
    (packet \in InvalidInputs /\ pc # "recv")
        => (pc \notin {"aborted", "done"} /\ Cardinality(ReplyPackets) = 1)

\* C15: the binary write X0,1:a is answered OK with the byte 'a' stored at address 0 of
\* the target, or with an error reply.
C15_BinaryWriteSupported ==
    (packet = "X0,1:a" /\ pc \in {"ack", "top"})
        => \E i \in ReplyPackets :
              \/ tx[i] = encode("OK") /\ target.mem[0] = Ord("a")
              \/ tx[i] = encode("E01")

\* the monitor commands "ts break kernel k*" and "ts trace start" as qRcmd packets
MonitorBreakKernel == "qRcmd:747320627265616b206b65726e656c206b2a"
MonitorTraceStart == "qRcmd:7473207472616365207374617274"

\* the reply packet that carries a text in the hex form of qRcmd: two hex digits per
\* character, framed
HexReply(text) == encode(toHexStr(text))

CodecBytes == {0, 3, 35, 36, 42, 93, 97, 125, 255}
\* the bytes a damaged frame may carry in place of one of its own: 'g', '0', '7', '#'
EditBytes == {103, 48, 55, 35}

RECURSIVE ByteStrings(_)
ByteStrings(n) ==
    IF n = 0 THEN {<<>>}
    ELSE ByteStrings(n - 1) \cup {Append(bs, b) : bs \in ByteStrings(n - 1), b \in CodecBytes}

CodecInit ==
    /\ pc = "codec"
    /\ inbound \in ByteStrings(MaxLen)
    /\ running_ = FALSE
    /\ no_ack_mode_ = FALSE
    /\ packet = ""
    /\ resuming = ""
    /\ peerClosed = FALSE
    /\ tx = <<>>
    /\ process_ = InitProcess
    /\ target = InitTarget
    /\ gpu_engine_ = InitEngine
    /\ env = InitEnv
    /\ obs = InitObs

CodecFrame == <<running_, no_ack_mode_, resuming, peerClosed, process_, target,
                gpu_engine_, obs, inbound>>

CodecEncode ==
    /\ pc = "codec"
    /\ tx' = encodeBytes(inbound)
    /\ pc' = "framed"
    /\ UNCHANGED <<CodecFrame, packet, env>>

\* one byte of the frame is replaced
CodecReplace ==
    /\ pc = "framed"
    /\ env.calls < MaxEdits
    /\ \E i \in 1..Len(tx), b \in EditBytes :
          /\ tx[i] # b
          /\ tx' = [tx EXCEPT ![i] = b]
    /\ env' = [env EXCEPT !.calls = @ + 1]
    /\ UNCHANGED <<CodecFrame, packet, pc>>

\* the frame loses its last byte
CodecTruncate ==
    /\ pc = "framed"
    /\ env.calls < MaxEdits
    /\ tx' = SubSeq(tx, 1, Len(tx) - 1)
    /\ env' = [env EXCEPT !.calls = @ + 1]
    /\ UNCHANGED <<CodecFrame, packet, pc>>

CodecDecode ==
    /\ pc = "framed"
    /\ packet' = decodeBytes(tx)
    /\ pc' = "decoded"
    /\ UNCHANGED <<CodecFrame, tx, env>>

CodecNext == CodecEncode \/ CodecReplace \/ CodecTruncate \/ CodecDecode

CodecSpec == CodecInit /\ [][CodecNext]_vars

\* the sum of the bytes, one after the other
RECURSIVE ByteSum(_)
ByteSum(bs) == IF bs = <<>> THEN 0 ELSE Head(bs) + ByteSum(Tail(bs))

\* C17: a byte string that is encoded and decoded comes back as it was, and checksum
\* of a byte string is the sum of its bytes modulo 256.
C17_RoundTrip ==
    /\ checksum(inbound) = ByteSum(inbound) % 256
    /\ (pc = "decoded" /\ env.calls = 0) => packet = [ok |-> TRUE, data |-> inbound]

\* a string in which every byte that encode escapes occurs has made the round trip
C17_Witness ==
    /\ pc = "decoded"
    /\ env.calls = 0
    /\ packet.ok
    /\ {35, 36, 125} \subseteq {inbound[i] : i \in 1..Len(inbound)}

\* a frame as the claim describes it: '$', a payload, '#', and two hex digits that are
\* the sum of the payload's bytes modulo 256
IsHexByte(b) == HexVal(Chr(b)) >= 0 /\ Chr(b) # "?"
WellFramed(f) ==
    /\ Len(f) >= 4
    /\ f[1] = 36
    /\ f[Len(f) - 2] = 35
    /\ IsHexByte(f[Len(f) - 1]) /\ IsHexByte(f[Len(f)])
    /\ 16 * HexVal(Chr(f[Len(f) - 1])) + HexVal(Chr(f[Len(f)]))
          = ByteSum(SubSeq(f, 2, Len(f) - 3)) % 256

\* C18: decode accepts a frame only when it is '$' payload '#' and two hex digits equal
\* to the payload's byte sum modulo 256; a frame whose checksum field mismatches or is
\* not two hex digits is rejected.
C18_DecodeAcceptsOnlyWellFramed ==
    (pc = "decoded" /\ packet.ok) => WellFramed(tx)

\* ------------------------------------------- the GPU engine used directly
\* GPUDebugEngine is a public class: a caller sets breakpoints of any shape and hands it
\* events.  The last call and what it returned are kept in packet.
BpInputs ==
    {[DefaultGPUBreakpoint EXCEPT !.type = t, !.kernel_pattern = p, !.device_id = d,
                                  !.enabled = e] :
        t \in {"KernelLaunch", "Synchronize"},
        p \in {"", "k*"}, d \in {-1, 1}, e \in BOOLEAN}
EventInputs ==
    {[type |-> "KernelLaunch", name |-> "k1", device_id |-> 0, correlation_id |-> 1,
      timestamp |-> 1],
     [type |-> "KernelLaunch", name |-> "m2", device_id |-> 1, correlation_id |-> 2,
      timestamp |-> 1],
     [type |-> "DeviceSync", name |-> "", device_id |-> 1, correlation_id |-> 3,
      timestamp |-> 1]}

GpuInit ==
    /\ pc = "gpu"
    /\ running_ = FALSE
    /\ no_ack_mode_ = FALSE
    /\ packet = [op |-> "none"]
    /\ resuming = ""
    /\ inbound = <<>>
    /\ peerClosed = FALSE
    /\ tx = <<>>
    /\ process_ = InitProcess
    /\ target = InitTarget
    /\ gpu_engine_ = InitEngine
    /\ env = InitEnv
    /\ obs = InitObs

GpuFrame == <<pc, running_, no_ack_mode_, resuming, inbound, peerClosed, tx, process_,
              target, obs>>

GpuSetBreakpoint ==
    /\ pc = "gpu"
    /\ Len(gpu_engine_.gpu_breakpoints_) < MaxBreakpoints
    /\ \E bp \in BpInputs :
          LET r == setGPUBreakpoint(gpu_engine_, bp) IN
          /\ gpu_engine_' = r.g
          /\ packet' = [op |-> "set", ret |-> r.ret]
    /\ UNCHANGED <<GpuFrame, env>>

GpuCheckOn(event) ==
    /\ pc = "gpu"
    /\ env.calls < MaxChecks
    /\ LET r == checkBreakpoints(gpu_engine_, event) IN
          /\ gpu_engine_' = r.g
          /\ packet' = [op |-> "check", event |-> event, ret |-> r.ret]
    /\ env' = [env EXCEPT !.calls = @ + 1]
    /\ UNCHANGED GpuFrame

GpuHandleOn(event) ==
    /\ pc = "gpu"
    /\ env.calls < MaxChecks
    /\ LET r == handleEvent(gpu_engine_, event) IN
          /\ gpu_engine_' = r.g
          /\ packet' = [op |-> "handle", event |-> event, ret |-> r.matched]
    /\ env' = [env EXCEPT !.calls = @ + 1]
    /\ UNCHANGED GpuFrame

GpuCheckBreakpoints == \E event \in EventInputs : GpuCheckOn(event)
GpuHandleEvent == \E event \in EventInputs : GpuHandleOn(event)

GpuNext == GpuSetBreakpoint \/ GpuCheckBreakpoints \/ GpuHandleEvent

GpuSpec == GpuInit /\ [][GpuNext]_vars

\* the positions of the list whose breakpoint matches while none before it does
FirstMatching(bps, event) ==
    {i \in 1..Len(bps) : matches(bps[i], event) /\ \A j \in 1..(i - 1) : ~matches(bps[j], event)}

\* what the claim asks of the list after a check of event: the first matching breakpoint
\* has one hit more, every other breakpoint is as it was
HitsAfter(event) ==
    LET bps  == gpu_engine_.gpu_breakpoints_
        bps2 == gpu_engine_'.gpu_breakpoints_
    IN  /\ Len(bps2) = Len(bps)
        /\ \A i \in 1..Len(bps) :
              bps2[i] = IF i \in FirstMatching(bps, event)
                        THEN [bps[i] EXCEPT !.hit_count = @ + 1]
                        ELSE bps[i]

\* C19: a check of an event increments the hit_count of the first breakpoint in list
\* order that matches, by one, and returns that breakpoint; no other hit_count changes,
\* and when no breakpoint matches nothing is returned and the engine is unchanged
\* (handleEvent: the breakpoints are unchanged).
C19_FirstMatchCounted ==
    [][\A event \in EventInputs :
          /\ GpuCheckOn(event) =>
                /\ HitsAfter(event)
                /\ \A i \in FirstMatching(gpu_engine_.gpu_breakpoints_, event) :
                      packet'.ret = gpu_engine_'.gpu_breakpoints_[i]
                /\ FirstMatching(gpu_engine_.gpu_breakpoints_, event) = {}
                      => (packet'.ret = NoGPUBreakpoint /\ gpu_engine_' = gpu_engine_)
          /\ GpuHandleOn(event) =>
                /\ HitsAfter(event)
                /\ FirstMatching(gpu_engine_.gpu_breakpoints_, event) = {} => packet'.ret = 0
                /\ \A i \in FirstMatching(gpu_engine_.gpu_breakpoints_, event) : packet'.ret = i
      ]_vars

\* the last check returned the second breakpoint of the list, past an enabled first
\* one that an earlier check had hit
C19_Witness ==
    /\ packet.op = "check"
    /\ Len(gpu_engine_.gpu_breakpoints_) = 2
    /\ packet.ret = gpu_engine_.gpu_breakpoints_[2]
    /\ gpu_engine_.gpu_breakpoints_[2].hit_count = 1
    /\ gpu_engine_.gpu_breakpoints_[1].hit_count = 1
    /\ gpu_engine_.gpu_breakpoints_[1].enabled

\* what shell-style globbing gives for the patterns and names used here
GlobMatches == {<<"k*", "k1">>}
\* the event kinds a breakpoint kind stands for
KindMatches ==
    {<<"KernelLaunch", "KernelLaunch">>, <<"Synchronize", "DeviceSync">>}

\* the breakpoint is enabled, of the event's kind, and not filtered to another device
Eligible(bp, event) ==
    /\ bp.enabled
    /\ <<bp.type, event.type>> \in KindMatches
    /\ (bp.device_id < 0 \/ bp.device_id = event.device_id)

\* a match as the claim words it: every non-empty pattern is matched against the name
MatchesAsStated(bp, event) ==
    /\ Eligible(bp, event)
    /\ (bp.kernel_pattern = "" \/ <<bp.kernel_pattern, event.name>> \in GlobMatches)

\* a match with the pattern read for kernel breakpoints only
MatchesKernelPattern(bp, event) ==
    /\ Eligible(bp, event)
    /\ (bp.type = "KernelLaunch"
           => (bp.kernel_pattern = "" \/ <<bp.kernel_pattern, event.name>> \in GlobMatches))

ActivityRecord(k, op) ==
    [op |-> op, correlation_id |-> k, begin_ns |-> 2 * k - 1, end_ns |-> 2 * k,
     kernel_name |-> "k1", device_id |-> 0]

\* processKernelActivity: launch_event and complete_event
launch_event(record) ==
    [type |-> "KernelLaunch", name |-> record.kernel_name, device_id |-> record.device_id,
     correlation_id |-> record.correlation_id, timestamp |-> record.begin_ns]
complete_event(record) ==
    [type |-> "KernelComplete", name |-> record.kernel_name, device_id |-> record.device_id,
     correlation_id |-> record.correlation_id, timestamp |-> record.end_ns]

\* processSyncActivity: event (device_id is left as constructed)
sync_event(record) ==
    [type |-> "StreamSync", name |-> "hipStreamSynchronize", device_id |-> 0,
     correlation_id |-> record.correlation_id, timestamp |-> record.begin_ns]

\* parse_summary_file: the event of a data row (correlation_id and device_id are left
\* as constructed)
row_event(record) ==
    [type |-> "KernelLaunch", name |-> record.kernel_name, device_id |-> 0,
     correlation_id |-> 0, timestamp |-> record.begin_ns]

\* processHipActivity(record): the events it hands to addEvent, in order
EventsOf(record) ==
    CASE record.op = "DISPATCH" -> <<launch_event(record), complete_event(record)>>
      [] record.op = "BARRIER"  -> <<sync_event(record)>>
      [] OTHER -> <<>>

\* the second half of addEvent: under events_mutex_, the event is dropped when the
\* buffer is at its limit and stored otherwise.  h is what the callback returned.
storeEvent(h, event) ==
    IF h.g.adapter.buffer_size > 0 /\ Len(h.g.adapter.events_) >= h.g.adapter.buffer_size
    THEN [g |-> [h.g EXCEPT !.adapter.events_dropped_ = @ + 1],
          callback |-> h.callback, stored |-> FALSE]
    ELSE [g |-> [h.g EXCEPT !.adapter.events_ = Append(@, event)],
          callback |-> h.callback, stored |-> TRUE]

\* ROCmProfiler::addEvent(event): [g, callback, stored].  callback_ is the lambda of
\* GPUDebugEngine::initialize, which calls handleEvent.
addEvent(g, event) ==
    storeEvent(IF g.adapter.callback_
               THEN handleEvent([g EXCEPT !.adapter.events_captured_ = @ + 1], event)
               ELSE [g |-> [g EXCEPT !.adapter.events_captured_ = @ + 1],
                     matched |-> 0, callback |-> <<>>],
               event)

\* one turn of the loop of hipActivityCallback; acc is [g, callbacks, submits]
addEventTo(acc, a) ==
    [g |-> a.g, callbacks |-> acc.callbacks \o a.callback, submits |-> acc.submits + 1]

\* hipActivityCallback(begin, end): every event of every record goes through addEvent
RECURSIVE addEvents(_, _)
addEvents(acc, events) ==
    IF events = <<>> THEN acc
    ELSE addEvents(addEventTo(acc, addEvent(acc.g, Head(events))), Tail(events))

RECURSIVE FlatEvents(_)
FlatEvents(records) ==
    IF records = <<>> THEN <<>> ELSE EventsOf(Head(records)) \o FlatEvents(Tail(records))

RECURSIVE RowEvents(_)
RowEvents(records) ==
    IF records = <<>> THEN <<>> ELSE <<row_event(Head(records))>> \o RowEvents(Tail(records))

\* a getEvents that hands the events out without removing them from the buffer
getEvents_Keep(p, max_count) ==
    LET size == Len(p.events_)
        count == IF max_count > 0 /\ max_count < size THEN max_count ELSE size
    IN  [p |-> p, events |-> SubSeq(p.events_, 1, count), ret |-> count]

\* ROCmProfiler::getEvents and AscendProfiler::getEvents: [p, events, ret]
getEvents(p, max_count) ==
    LET size == Len(p.events_)
        count == IF p.platform = "Ascend"
                 THEN IF max_count > 0
                      THEN (IF max_count < size THEN max_count ELSE size)
                      ELSE size
                 ELSE IF max_count > 0 /\ max_count < size THEN max_count ELSE size
    IN  [p |-> [p EXCEPT !.events_ = SubSeq(@, count + 1, size)],
         events |-> SubSeq(p.events_, 1, count),
         ret |-> count]

\* ROCmProfiler::startCapture and AscendProfiler::startCapture: [p, ret]; ok is what
\* the vendor calls (roctracer_enable_*, aclprofStart) return
adapterStart(p, ok) ==
    IF p.platform = "Ascend"
    THEN IF ok THEN [p |-> [p EXCEPT !.capturing_ = TRUE], ret |-> TRUE]
         ELSE [p |-> p, ret |-> FALSE]
    ELSE IF ~p.initialized_ THEN [p |-> p, ret |-> FALSE]
    ELSE IF p.capturing_ THEN [p |-> p, ret |-> TRUE]
    ELSE LET p1 == [p EXCEPT !.events_ = <<>>, !.events_captured_ = 0,
                             !.events_dropped_ = 0]
         IN  IF ok THEN [p |-> [p1 EXCEPT !.capturing_ = TRUE], ret |-> TRUE]
             ELSE [p |-> p1, ret |-> FALSE]

\* ROCmProfiler::stopCapture and AscendProfiler::stopCapture, on the engine that owns
\* the adapter: [g, callbacks, submits].  records is what roctracer_flush_activity
\* still delivers to hipActivityCallback, or the rows parse_profiling_output finds.
adapterStop(g, records) ==
    LET p == g.adapter IN
    IF ~p.capturing_ THEN [g |-> g, callbacks |-> <<>>, submits |-> 0]
    ELSE IF p.platform = "Ascend"
    THEN [g |-> [g EXCEPT !.adapter.capturing_ = FALSE,
                          !.adapter.events_ = @ \o RowEvents(records),
                          !.adapter.events_captured_ = @ + Len(records)],
          callbacks |-> <<>>, submits |-> Len(records)]
    ELSE addEvents([g |-> [g EXCEPT !.adapter.capturing_ = FALSE], callbacks |-> <<>>,
                    submits |-> 0],
                   FlatEvents(records))

\* the drain of stopCapture: getEvents(events), the insert into captured_events_ and
\* capturing_ = false; s is what profiler_->stopCapture() left, d what getEvents returns
drainStopped(s, d) ==
    [g |-> [s.g EXCEPT !.adapter = d.p,
                       !.captured_events_ = @ \o d.events,
                       !.capturing_ = FALSE,
                       !.profiler_capturing = FALSE],
     ret |-> TRUE, callbacks |-> s.callbacks, submits |-> s.submits, drained |-> d.events]

stopAndDrain(s) == drainStopped(s, getEvents(s.g.adapter, 0))

\* GPUDebugEngine::stopCapture(): [g, ret, callbacks, submits, drained]
stopCapture(g, records) ==
    IF ~g.capturing_ \/ ~g.profiler_
    THEN [g |-> g, ret |-> FALSE, callbacks |-> <<>>, submits |-> 0, drained |-> <<>>]
    ELSE stopAndDrain(adapterStop(g, records))

\* An engine whose adapter is a ROCm or an Ascend profiler, with the history sizes and
\* the buffer size the caller configured, a user event callback installed and, maybe,
\* a breakpoint on the launches of k*.  The adapter is also drained directly, as a
\* caller of IPlatformProfiler does.  env.pending holds the events of a record that
\* hipActivityCallback has not handed to addEvent yet.
CapBreakpoints ==
    {<<>>, <<[DefaultGPUBreakpoint EXCEPT !.kernel_pattern = "k*"]>>}

RECURSIVE withBreakpoints(_, _)
withBreakpoints(g, bps) ==
    IF bps = <<>> THEN g ELSE withBreakpoints(setGPUBreakpoint(g, Head(bps)).g, Tail(bps))

CapInit ==
    /\ pc = "capture"
    /\ running_ = FALSE
    /\ no_ack_mode_ = FALSE
    /\ packet = [op |-> "none"]
    /\ resuming = ""
    /\ inbound = <<>>
    /\ peerClosed = FALSE
    /\ tx = <<>>
    /\ process_ = InitProcess
    /\ target = InitTarget
    /\ \E platform \in {"ROCm", "Ascend"}, buffer_size \in {0, MaxBuffer},
          eh \in {1, MaxBuffer}, kh \in {1, MaxBuffer}, bps \in CapBreakpoints :
          gpu_engine_ = withBreakpoints(
              [InitEngine EXCEPT !.adapter = InitProfiler(platform, buffer_size),
                                 !.config_ = [kernel_history_size |-> kh,
                                              event_history_size |-> eh],
                                 !.event_callback_ = TRUE],
              bps)
    /\ env = [records |-> 0, calls |-> 0, pending |-> <<>>]
    /\ obs = [submits |-> 0, stored |-> <<>>, drains |-> <<>>, callbacks |-> <<>>,
              submitted |-> <<>>]

CapFrame == <<pc, running_, no_ack_mode_, resuming, inbound, peerClosed, tx, process_,
              target>>

RECURSIVE Flatten(_)
Flatten(seqs) == IF seqs = <<>> THEN <<>> ELSE Head(seqs) \o Flatten(Tail(seqs))

\* GPUDebugEngine::startCapture()
CapStartCapture ==
    /\ pc = "capture"
    /\ \E ok \in BOOLEAN :
          LET called == gpu_engine_.initialized_ /\ gpu_engine_.profiler_
                        /\ ~gpu_engine_.capturing_
              a == adapterStart(gpu_engine_.adapter, ok)
              r == startCapture(gpu_engine_, a.ret)
          IN  /\ gpu_engine_' = IF called THEN [r.g EXCEPT !.adapter = a.p] ELSE r.g
              /\ packet' = [op |-> "startCapture", ret |-> r.ret]
              /\ obs' = IF called /\ a.p.events_ = <<>>
                        THEN [obs EXCEPT !.submits = 0, !.stored = Flatten(obs.drains),
                                         !.submitted = <<>>]
                        ELSE IF called /\ a.ret
                        THEN [obs EXCEPT !.submits = 0, !.submitted = <<>>]
                        ELSE obs
    /\ UNCHANGED <<CapFrame, env>>

\* the vendor's thread enters hipActivityCallback with one record
CapActivity ==
    /\ pc = "capture"
    /\ gpu_engine_.adapter.platform = "ROCm"
    /\ gpu_engine_.adapter.capturing_
    /\ env.pending = <<>>
    /\ env.records < MaxRecords
    /\ \E op \in {"DISPATCH", "BARRIER"} :
          LET events == EventsOf(ActivityRecord(env.records + 1, op))
              a == addEvent(gpu_engine_, Head(events))
          IN  /\ gpu_engine_' = a.g
              /\ packet' = [op |-> "addEvent", event |-> Head(events), stored |-> a.stored]
              /\ env' = [env EXCEPT !.records = @ + 1, !.pending = Tail(events)]
              /\ obs' = [obs EXCEPT !.submits = @ + 1,
                                    !.submitted = Append(@, Head(events)),
                                    !.stored = IF a.stored THEN Append(@, Head(events))
                                               ELSE @,
                                    !.callbacks = @ \o a.callback]
    /\ UNCHANGED CapFrame

\* ... and hands the next event of that record to addEvent
CapActivityNext ==
    /\ pc = "capture"
    /\ env.pending # <<>>
    /\ LET a == addEvent(gpu_engine_, Head(env.pending)) IN
          /\ gpu_engine_' = a.g
          /\ packet' = [op |-> "addEvent", event |-> Head(env.pending), stored |-> a.stored]
          /\ obs' = [obs EXCEPT !.submits = @ + 1,
                                !.submitted = Append(@, Head(env.pending)),
                                !.stored = IF a.stored THEN Append(@, Head(env.pending))
                                           ELSE @,
                                !.callbacks = @ \o a.callback]
    /\ env' = [env EXCEPT !.pending = Tail(@)]
    /\ UNCHANGED CapFrame

\* getEvents(events, max_count) on the adapter
CapGetEvents ==
    /\ pc = "capture"
    /\ env.calls < MaxDrains
    /\ \E max_count \in 0..2 :
          LET d == getEvents(gpu_engine_.adapter, max_count) IN
          /\ gpu_engine_' = [gpu_engine_ EXCEPT !.adapter = d.p]
          /\ packet' = [op |-> "getEvents", max_count |-> max_count, events |-> d.events,
                        ret |-> d.ret]
          /\ obs' = [obs EXCEPT !.drains = Append(@, d.events)]
    /\ env' = [env EXCEPT !.calls = @ + 1]
    /\ UNCHANGED CapFrame

\* the records the stop of a capture still brings in
StopRecords ==
    {<<>>} \cup
    (IF env.records + 1 <= MaxRecords
     THEN {<<ActivityRecord(env.records + 1, "DISPATCH")>>} ELSE {}) \cup
    (IF env.records + 2 <= MaxRecords
     THEN {<<ActivityRecord(env.records + 1, "DISPATCH"),
             ActivityRecord(env.records + 2, "DISPATCH")>>} ELSE {})

\* GPUDebugEngine::stopCapture()
CapStopCapture ==
    /\ pc = "capture"
    /\ env.calls < MaxDrains
    /\ \E records \in StopRecords :
          LET r == stopCapture(gpu_engine_, records)
              rec == IF r.ret THEN Len(records) ELSE 0
          IN  /\ gpu_engine_' = r.g
              /\ packet' = [op |-> "stopCapture", ret |-> r.ret, drained |-> r.drained]
              /\ env' = [env EXCEPT !.records = @ + rec, !.calls = @ + 1]
              /\ obs' = IF r.ret
                        THEN [obs EXCEPT !.submits = @ + r.submits,
                                         !.submitted =
                                            IF r.submits = 0 THEN @
                                            ELSE IF gpu_engine_.adapter.platform = "Ascend"
                                            THEN @ \o RowEvents(records)
                                            ELSE @ \o FlatEvents(records),
                                         !.stored = SubSeq(@, 1, Len(@))
                                                    \o SubSeq(r.drained,
                                                              Len(gpu_engine_.adapter.events_) + 1,
                                                              Len(r.drained)),
                                         !.drains = Append(@, r.drained),
                                         !.callbacks = @ \o r.callbacks]
                        ELSE obs
    /\ UNCHANGED CapFrame

CapNext ==
    \/ CapStartCapture
    \/ CapActivity
    \/ CapActivityNext
    \/ CapGetEvents
    \/ CapStopCapture

CaptureSpec == CapInit /\ [][CapNext]_vars



\* ---------------------------------------------------------------- C21
Count(seq, x) == Cardinality({i \in DOMAIN seq : seq[i] = x})
CallbacksFor(event) == {c \in DOMAIN obs.callbacks : obs.callbacks[c].event = event}

\* what the user callback must find when it is called for event: the event is the
\* newest entry of the recent-event history and the last one the state machine was
\* fed, a launch has its kernel-history entry, and the breakpoint handed over is the
\* first one that matches, its hit already counted
ProcessedBeforeCallback(c) ==
    LET e == c.event
        seen == c.engine
    IN  /\ seen.event_history_ # <<>>
        /\ seen.event_history_[Len(seen.event_history_)] = e
        /\ seen.state_machine_ # <<>>
        /\ seen.state_machine_[Len(seen.state_machine_)] = e
        /\ e.type = "KernelLaunch" =>
              /\ seen.kernel_history_ # <<>>
              /\ seen.kernel_history_[Len(seen.kernel_history_)].call_id = e.correlation_id
        /\ IF \E i \in DOMAIN gpu_engine_.gpu_breakpoints_ :
                  matches(gpu_engine_.gpu_breakpoints_[i], e)
           THEN /\ c.matched_bp # NoGPUBreakpoint
                /\ c.matched_bp.id =
                      gpu_engine_.gpu_breakpoints_[
                          firstMatch(gpu_engine_.gpu_breakpoints_, e, 1)].id
                /\ c.matched_bp.hit_count >= 1
           ELSE c.matched_bp = NoGPUBreakpoint

\* C21: every event a drain of the adapter has returned has gone through the engine's
\* processing exactly once (the state machine was fed it once) and the user callback
\* was called exactly once for it, after the history, state-machine, kernel-history
\* and breakpoint steps, with the matched breakpoint or none.
C21_DrainedProcessedOnce ==
    \A k \in DOMAIN obs.drains : \A i \in DOMAIN obs.drains[k] :
        LET e == obs.drains[k][i] IN
        /\ Count(gpu_engine_.state_machine_, e) = 1
        /\ Cardinality(CallbacksFor(e)) = 1
        /\ \A c \in CallbacksFor(e) : ProcessedBeforeCallback(obs.callbacks[c])



\* ---------------------------------------------------------------- C22
isComplete(info) == info.complete_time > 0

\* the entries of the kernel history that are the running launch of event's id
RunningFor(h, event) ==
    {i \in DOMAIN h : h[i].call_id = event.correlation_id /\ ~isComplete(h[i])}

\* what handling event has done to the kernel history h, which is h2 afterwards
HistoryStep(h, h2, event) ==
    CASE event.type = "KernelLaunch" ->
            /\ h2 # <<>>
            /\ LET new == h2[Len(h2)] IN
                  /\ new.call_id = event.correlation_id
                  /\ new.kernel_name = event.name
                  /\ new.launch_time = event.timestamp
                  /\ ~isComplete(new)
            /\ \A k \in 1..(Len(h2) - 1) : h2[k] = h[Len(h) - (Len(h2) - 1) + k]
      [] event.type = "KernelComplete" /\ RunningFor(h, event) # {} ->
            /\ Len(h2) = Len(h)
            /\ \E i \in RunningFor(h, event) :
                  /\ h2[i] = [h[i] EXCEPT !.complete_time = event.timestamp]
                  /\ isComplete(h2[i])
                  /\ \A k \in DOMAIN h : k # i => h2[k] = h[k]
      [] OTHER -> h2 = h

\* C22: a KernelLaunch that is handled appends a running entry to the kernel history;
\* the KernelComplete with the same correlation id sets complete_time on an entry
\* with that id that was running, which is complete afterwards, and changes no other
\* entry.
C22_LaunchThenComplete ==
    [][(CapActivity \/ CapActivityNext) /\ gpu_engine_.adapter.callback_
          => HistoryStep(gpu_engine_.kernel_history_, gpu_engine_'.kernel_history_,
                         packet'.event)]_vars

C22_Witness ==
    /\ packet.op = "addEvent"
    /\ packet.event.type = "KernelComplete"
    /\ Len(gpu_engine_.kernel_history_) = 2
    /\ \A k \in 1..2 : isComplete(gpu_engine_.kernel_history_[k])
    /\ gpu_engine_.kernel_history_[2].call_id = packet.event.correlation_id
    /\ gpu_engine_.kernel_history_[2].complete_time = packet.event.timestamp



\* ---------------------------------------------------------------- C23
\* the last n entries of seq, all of it when it has fewer
LastN(seq, n) == IF Len(seq) > n THEN SubSeq(seq, Len(seq) - n + 1, Len(seq)) ELSE seq

RECURSIVE LaunchIds(_)
LaunchIds(events) ==
    IF events = <<>> THEN <<>>
    ELSE (IF Head(events).type = "KernelLaunch" THEN <<Head(events).correlation_id>>
          ELSE <<>>) \o LaunchIds(Tail(events))

CallIds(h) == [k \in DOMAIN h |-> h[k].call_id]

\* C23: the recent-event history never holds more than event_history_size entries and
\* the kernel history never more than kernel_history_size; each holds the most recent
\* events (launches) the engine has handled, in the order it handled them, the older
\* ones having been discarded.
C23_HistoriesAreRings ==
    LET handled == gpu_engine_.state_machine_ IN
    /\ Len(gpu_engine_.event_history_) <= gpu_engine_.config_.event_history_size
    /\ Len(gpu_engine_.kernel_history_) <= gpu_engine_.config_.kernel_history_size
    /\ gpu_engine_.event_history_ = LastN(handled, gpu_engine_.config_.event_history_size)
    /\ CallIds(gpu_engine_.kernel_history_)
          = LastN(LaunchIds(handled), gpu_engine_.config_.kernel_history_size)

C23_Witness ==
    /\ Len(gpu_engine_.state_machine_) > gpu_engine_.config_.event_history_size
    /\ Len(gpu_engine_.event_history_) = gpu_engine_.config_.event_history_size
    /\ Len(LaunchIds(gpu_engine_.state_machine_)) > gpu_engine_.config_.kernel_history_size
    /\ Len(gpu_engine_.kernel_history_) = gpu_engine_.config_.kernel_history_size
    /\ gpu_engine_.config_.kernel_history_size = MaxBuffer



\* ---------------------------------------------------------------- C24
\* C24: while a capture is running, events_captured + events_dropped equals the number
\* of addEvent calls (submit attempts) made since that capture started.
C24_DropAccounting ==
    gpu_engine_.adapter.capturing_ =>
        gpu_engine_.adapter.events_captured_ + gpu_engine_.adapter.events_dropped_
            = obs.submits



\* ---------------------------------------------------------------- C25
\* C25: in every sequence of events one drain has returned, a KernelComplete is
\* preceded by a KernelLaunch with the same correlation id.
C25_CompletionAfterLaunchInDrain ==
    \A k \in DOMAIN obs.drains :
        LET d == obs.drains[k] IN
        \A i \in DOMAIN d :
            d[i].type = "KernelComplete" =>
                \E j \in 1..(i - 1) : /\ d[j].type = "KernelLaunch"
                                      /\ d[j].correlation_id = d[i].correlation_id

\* ---------------------------------------------------------------- C26
\* C26: what the drains have returned so far, one after the other and followed by what
\* is still buffered, is exactly the sequence of events the adapter has stored, in the
\* order it stored them (so no event is returned twice, reordered or skipped), and a
\* drain with a positive max_count returns no more than max_count events, all of the
\* buffered ones when there are fewer.
C26_DrainInStoredOrder ==
    /\ Flatten(obs.drains) \o gpu_engine_.adapter.events_ = obs.stored
    /\ \A i, j \in DOMAIN obs.stored : obs.stored[i] = obs.stored[j] => i = j
    /\ packet.op = "getEvents" /\ packet.max_count > 0 =>
          /\ Len(packet.events) <= packet.max_count
          /\ Len(packet.events) = packet.max_count \/ gpu_engine_.adapter.events_ = <<>>
    /\ packet.op = "getEvents" /\ packet.max_count = 0 => gpu_engine_.adapter.events_ = <<>>

C26_Witness ==
    /\ packet.op = "getEvents"
    /\ Len(obs.drains) = 2
    /\ Len(obs.drains[1]) = 1
    /\ Len(obs.drains[2]) = 2
    /\ gpu_engine_.adapter.events_ # <<>>



\* ------------------------------------------------------- the replay cursor
\* A caller loads trace files and drives the cursor, as handleTSReplay does: after each
\* controlReplay it asks for the current event.  obs follows the traversals: a
\* traversal begins at Start and is the run of StepEvent (or of StepKernel) commands
\* that takes the cursor to the end of the trace; walk holds the (index, timestamp)
\* the cursor showed at each position of it, from the one Start left it at.
TraceEvents(kinds, stamps) ==
    [k \in DOMAIN kinds |->
        [type |-> kinds[k], name |-> "k1", device_id |-> 0, correlation_id |-> k,
         timestamp |-> stamps[k]]]

TraceFiles ==
    {[name |-> "bad.sbt", valid |-> FALSE, readable |-> FALSE, events |-> <<>>],
     [name |-> "cut.sbt", valid |-> TRUE, readable |-> FALSE, events |-> <<>>],
     [name |-> "empty.sbt", valid |-> TRUE, readable |-> TRUE, events |-> <<>>],
     [name |-> "s6.sbt", valid |-> TRUE, readable |-> TRUE,
      events |-> TraceEvents(<<"KernelLaunch", "KernelComplete", "KernelLaunch",
                               "KernelComplete", "StreamSync">>,
                             <<100, 200, 300, 400, 500>>)],
     [name |-> "one.sbt", valid |-> TRUE, readable |-> TRUE,
      events |-> TraceEvents(<<"KernelLaunch", "KernelComplete">>, <<100, 200>>)]}

Controls ==
    {[command |-> c, target_timestamp |-> 0, target_event_index |-> 0] :
        c \in {"Start", "Stop", "Pause", "Resume", "StepEvent", "StepKernel"}}
    \cup {[command |-> "GotoTimestamp", target_timestamp |-> t, target_event_index |-> 0] :
             t \in {0, 100, 350, 500, 600}}
    \cup {[command |-> "GotoEvent", target_timestamp |-> 0, target_event_index |-> i] :
             i \in {0, 1, 4, 5, 10}}

\* full traversals recorded per loaded trace
MaxWalks == 2

NoWalk == [walking |-> FALSE, kind |-> "none", walk |-> <<>>, walks |-> {}]

ReplayInit ==
    /\ pc = "replay"
    /\ running_ = FALSE
    /\ no_ack_mode_ = FALSE
    /\ packet = [op |-> "none"]
    /\ resuming = ""
    /\ inbound = <<>>
    /\ peerClosed = FALSE
    /\ tx = <<>>
    /\ process_ = InitProcess
    /\ target = InitTarget
    /\ gpu_engine_ = InitEngine
    /\ env = InitEnv
    /\ obs = NoWalk

ReplayFrame == <<pc, running_, no_ack_mode_, resuming, inbound, peerClosed, tx, process_,
                 target, env>>

\* the traversal record after a step of kind command has left the cursor at rs
WalkStep(o, command, g) ==
    LET rs == g.replay_state_
        seq == Append(o.walk, <<rs.current_event_index, rs.current_timestamp>>)
    IN  IF ~o.walking THEN o
        ELSE IF o.kind \notin {"none", command} THEN [o EXCEPT !.walking = FALSE]
        ELSE IF rs.current_event_index >= rs.total_events
        THEN [o EXCEPT !.walking = FALSE, !.kind = "none", !.walk = <<>>,
                       !.walks = IF Cardinality(@) < MaxWalks
                                 THEN @ \cup {[kind |-> command, seq |-> seq,
                                               state_machine_ |-> g.state_machine_]}
                                 ELSE @]
        ELSE [o EXCEPT !.kind = command, !.walk = seq]

Walked(o, control, r) ==
    IF ~r.ret THEN o
    ELSE CASE control.command = "Start" ->
                 [o EXCEPT !.walking = TRUE, !.kind = "none",
                           !.walk = <<<<r.g.replay_state_.current_event_index,
                                        r.g.replay_state_.current_timestamp>>>>]
           [] control.command \in {"StepEvent", "StepKernel"} ->
                 WalkStep(o, control.command, r.g)
           [] control.command \in {"Pause", "Resume"} -> o
           [] OTHER -> [o EXCEPT !.walking = FALSE, !.kind = "none", !.walk = <<>>]

\* loadTrace(filename)
RepLoadTrace ==
    /\ pc = "replay"
    /\ \E file \in TraceFiles :
          LET r == loadTrace(gpu_engine_, file) IN
          /\ gpu_engine_' = r.g
          /\ packet' = [op |-> "loadTrace", file |-> file.name, ret |-> r.ret]
          /\ obs' = IF r.ret THEN NoWalk ELSE obs
    /\ UNCHANGED ReplayFrame

\* controlReplay(control), then getCurrentReplayEvent()
RepControlOn(control) ==
    /\ pc = "replay"
    /\ LET r == controlReplay(gpu_engine_, control) IN
          /\ gpu_engine_' = r.g
          /\ packet' = [op |-> "controlReplay", control |-> control, ret |-> r.ret,
                        current |-> getCurrentReplayEvent(r.g)]
          /\ obs' = Walked(obs, control, r)
    /\ UNCHANGED ReplayFrame

RepControl == \E control \in Controls : RepControlOn(control)

ReplayNext == RepLoadTrace \/ RepControl

ReplaySpec == ReplayInit /\ [][ReplayNext]_vars



\* ---------------------------------------------------------------- C27
\* C27: any two full traversals of the loaded trace that step the same way (both by
\* StepEvent or both by StepKernel) have shown the same (index, timestamp) at each of
\* their positions and have ended with the same state-machine snapshot.
C27_ReplayDeterminism ==
    \A w1, w2 \in obs.walks :
        w1.kind = w2.kind => /\ w1.seq = w2.seq
                             /\ w1.state_machine_ = w2.state_machine_



\* ---------------------------------------------------------------- C28
Loaded == gpu_engine_.replay_events_ # <<>>
Cursor == gpu_engine_.replay_state_

\* the indices of the events of the loaded trace whose timestamp is at least t
AtOrAfter(t) ==
    {i \in 0..(Len(gpu_engine_.replay_events_) - 1) :
        EventAt(gpu_engine_.replay_events_, i).timestamp >= t}

\* C28: goto_timestamp leaves the cursor on the first event whose timestamp is at least
\* the target, with that event's timestamp; when no event has such a timestamp the
\* index becomes total_events.
C28_GotoTimestamp ==
    [][\A c \in Controls :
          c.command = "GotoTimestamp" /\ Loaded /\ RepControlOn(c) =>
              IF AtOrAfter(c.target_timestamp) # {}
              THEN /\ Cursor'.current_event_index = SetMin(AtOrAfter(c.target_timestamp))
                   /\ Cursor'.current_timestamp =
                         EventAt(gpu_engine_.replay_events_,
                                 SetMin(AtOrAfter(c.target_timestamp))).timestamp
              ELSE Cursor'.current_event_index = Cursor.total_events]_vars

\* ---------------------------------------------------------------- C29
\* C29: goto_event with an index at or beyond the number of events of the loaded trace
\* leaves the index at total_events, and the cursor, when the replay is active, has no
\* current event.
C29_GotoEventClamps ==
    [][\A c \in Controls :
          /\ c.command = "GotoEvent"
          /\ Loaded
          /\ c.target_event_index >= Len(gpu_engine_.replay_events_)
          /\ RepControlOn(c)
          => /\ Cursor'.current_event_index = Cursor.total_events
             /\ Cursor.active => packet'.current = NoTraceEvent]_vars

\* ---------------------------------------------------------------- C30
\* C30: step_event on a cursor that is on an event moves the index on by exactly one
\* and, when there is an event at the new index, sets the timestamp to that event's;
\* nothing else of the replay state changes, and a cursor at the end stays there.
C30_StepEvent ==
    [][\A c \in Controls :
          c.command = "StepEvent" /\ Loaded /\ RepControlOn(c) =>
              IF Cursor.current_event_index < Len(gpu_engine_.replay_events_)
              THEN /\ Cursor'.current_event_index = Cursor.current_event_index + 1
                   /\ Cursor'.current_event_index < Len(gpu_engine_.replay_events_) =>
                         Cursor'.current_timestamp =
                             EventAt(gpu_engine_.replay_events_,
                                     Cursor'.current_event_index).timestamp
                   /\ Cursor' = [Cursor EXCEPT
                                    !.current_event_index = Cursor'.current_event_index,
                                    !.current_timestamp = Cursor'.current_timestamp]
              ELSE Cursor' = Cursor]_vars

\* the spec's scenario: five events at 100 .. 500, a step from index 0
C30_Witness ==
    /\ packet.op = "controlReplay"
    /\ packet.control.command = "StepEvent"
    /\ Cursor.trace_file = "s6.sbt"
    /\ Cursor.total_events = 5
    /\ Cursor.current_event_index = 1
    /\ Cursor.current_timestamp = 200



\* ---------------------------------------------------------------- C37
\* C37: in every replay state the index is at most total_events, and an index below
\* total_events names an event of the loaded trace whose timestamp is current_timestamp.
C37_CursorConsistent ==
    /\ Cursor.current_event_index <= Cursor.total_events
    /\ Cursor.current_event_index < Cursor.total_events =>
          /\ Cursor.current_event_index < Len(gpu_engine_.replay_events_)
          /\ Cursor.current_timestamp =
                EventAt(gpu_engine_.replay_events_, Cursor.current_event_index).timestamp



\* ---------------------------------------------------------------- C36
\* C36: a stopCapture that succeeds leaves in captured_events_ the events submitted
\* during the capture, each once, in the order of their submission.
C36_CapturedOnceInOrder ==
    [][CapStopCapture /\ packet'.ret =>
          gpu_engine_'.captured_events_ = obs'.submitted]_vars



\* ------------------------------------------------ the engine under its threads
\* One thread calls the engine's API (setGPUBreakpoint, removeGPUBreakpoint,
\* startCapture, stopCapture, finalize); two threads of the HIP runtime each bring one
\* event to ROCmProfiler::addEvent.  A step is what a thread does between two lock
\* operations, with the breakpoint loop of handleEvent as a step of its own.
\*   env.at[t]   where thread t is
\*   env.held[t] the mutexes thread t owns
\*   env.call    the API function the API thread is in
\*   obs.checked the events in the order the breakpoint loop saw them
\*   obs.drained the events in the order getEvents has returned them

\* calls the API thread makes
MaxOps == 3

HipThreads == {"hip1", "hip2"}
Threads == {"api"} \cup HipThreads
ApiCalls == {"setGPUBreakpoint", "removeGPUBreakpoint", "startCapture", "stopCapture",
             "finalize"}

\* the event thread t brings
EventOfThread(t) == launch_event(ActivityRecord(IF t = "hip1" THEN 1 ELSE 2, "DISPATCH"))

\* std::find_if over gpu_breakpoints_ by id: the index, or 0
RECURSIVE findBreakpoint(_, _, _)
findBreakpoint(bps, bp_id, i) ==
    IF i > Len(bps) THEN 0
    ELSE IF bps[i].id = bp_id THEN i
    ELSE findBreakpoint(bps, bp_id, i + 1)

\* removeGPUBreakpoint(bp_id), below its lock_guard: [g, ret]
removeGPUBreakpoint(g, bp_id) ==
    LET i == findBreakpoint(g.gpu_breakpoints_, bp_id, 1) IN
    IF i = 0 THEN [g |-> g, ret |-> FALSE]
    ELSE [g |-> [g EXCEPT !.gpu_breakpoints_ =
                     SubSeq(@, 1, i - 1) \o SubSeq(@, i + 1, Len(@))],
          ret |-> TRUE]

\* finalize() past its capturing_ test: the profiler is finalized and released and the
\* lists are cleared
finalizeRest(g) ==
    [g EXCEPT !.profiler_ = FALSE,
              !.adapter.initialized_ = FALSE,
              !.kernel_history_ = <<>>,
              !.event_history_ = <<>>,
              !.gpu_breakpoints_ = <<>>,
              !.captured_events_ = <<>>,
              !.initialized_ = FALSE]

ThreadInit ==
    /\ pc = "threads"
    /\ running_ = FALSE
    /\ no_ack_mode_ = FALSE
    /\ packet = [op |-> "none"]
    /\ resuming = ""
    /\ inbound = <<>>
    /\ peerClosed = FALSE
    /\ tx = <<>>
    /\ process_ = InitProcess
    /\ target = InitTarget
    /\ gpu_engine_ = [InitEngine EXCEPT !.event_callback_ = TRUE]
    /\ env = [at |-> [t \in Threads |-> "idle"],
              held |-> [t \in Threads |-> {}],
              call |-> "none", ops |-> 0, done |-> {}]
    /\ obs = [checked |-> <<>>, drained |-> <<>>]

ThreadFrame == <<pc, running_, no_ack_mode_, resuming, inbound, peerClosed, tx, process_,
                 target>>

Free(m) == \A t \in Threads : m \notin env.held[t]

\* the API thread enters one of the engine's functions
ApiCall ==
    /\ pc = "threads"
    /\ env.at["api"] = "idle"
    /\ env.ops < MaxOps
    /\ \E call \in ApiCalls :
          /\ env' = [env EXCEPT !.at["api"] = "lock", !.call = call, !.ops = @ + 1]
          /\ packet' = [op |-> call, thread |-> "api"]
    /\ UNCHANGED <<ThreadFrame, gpu_engine_, obs>>

\* std::lock_guard<std::mutex> lock(mutex_) at the top of the function
ApiLock ==
    /\ pc = "threads"
    /\ env.at["api"] = "lock"
    /\ Free("mutex_")
    /\ env' = [env EXCEPT !.at["api"] = "body", !.held["api"] = {"mutex_"}]
    /\ UNCHANGED <<ThreadFrame, gpu_engine_, obs, packet>>

\* setGPUBreakpoint(bp), to its return
ApiSetBreakpoint ==
    /\ pc = "threads"
    /\ env.at["api"] = "body"
    /\ env.call = "setGPUBreakpoint"
    /\ gpu_engine_' =
          setGPUBreakpoint(gpu_engine_,
                           [DefaultGPUBreakpoint EXCEPT !.kernel_pattern = "k*"]).g
    /\ env' = [env EXCEPT !.at["api"] = "idle", !.held["api"] = {}]
    /\ UNCHANGED <<ThreadFrame, obs, packet>>

\* removeGPUBreakpoint(bp_id), to its return
ApiRemoveBreakpoint ==
    /\ pc = "threads"
    /\ env.at["api"] = "body"
    /\ env.call = "removeGPUBreakpoint"
    /\ \E bp_id \in 1..2 :
          gpu_engine_' = removeGPUBreakpoint(gpu_engine_, bp_id).g
    /\ env' = [env EXCEPT !.at["api"] = "idle", !.held["api"] = {}]
    /\ UNCHANGED <<ThreadFrame, obs, packet>>

\* startCapture(), to its return
ApiStartCapture ==
    /\ pc = "threads"
    /\ env.at["api"] = "body"
    /\ env.call = "startCapture"
    /\ \E ok \in BOOLEAN :
          LET called == gpu_engine_.initialized_ /\ gpu_engine_.profiler_
                        /\ ~gpu_engine_.capturing_
              a == adapterStart(gpu_engine_.adapter, ok)
              r == startCapture(gpu_engine_, a.ret)
          IN  gpu_engine_' = IF called THEN [r.g EXCEPT !.adapter = a.p] ELSE r.g
    /\ env' = [env EXCEPT !.at["api"] = "idle", !.held["api"] = {}]
    /\ UNCHANGED <<ThreadFrame, obs, packet>>

\* stopCapture() up to the lock_guard of profiler_->getEvents(events); no record is
\* left for roctracer_flush_activity to deliver
ApiStopCapture ==
    /\ pc = "threads"
    /\ env.at["api"] = "body"
    /\ env.call = "stopCapture"
    /\ IF ~gpu_engine_.capturing_ \/ ~gpu_engine_.profiler_
       THEN /\ env' = [env EXCEPT !.at["api"] = "idle", !.held["api"] = {}]
            /\ UNCHANGED gpu_engine_
       ELSE /\ env' = [env EXCEPT !.at["api"] = "drain_lock"]
            /\ gpu_engine_' = adapterStop(gpu_engine_, <<>>).g
    /\ UNCHANGED <<ThreadFrame, obs, packet>>

\* ROCmProfiler::getEvents: std::lock_guard<std::mutex> lock(events_mutex_)
ApiDrainLock ==
    /\ pc = "threads"
    /\ env.at["api"] = "drain_lock"
    /\ Free("events_mutex_")
    /\ env' = [env EXCEPT !.at["api"] = "drain", !.held["api"] = @ \cup {"events_mutex_"}]
    /\ UNCHANGED <<ThreadFrame, gpu_engine_, obs, packet>>

\* the rest of getEvents and of stopCapture
ApiDrain ==
    /\ pc = "threads"
    /\ env.at["api"] = "drain"
    /\ LET d == getEvents(gpu_engine_.adapter, 0) IN
          /\ gpu_engine_' = drainStopped([g |-> gpu_engine_, callbacks |-> <<>>,
                                          submits |-> 0], d).g
          /\ obs' = [obs EXCEPT !.drained = @ \o d.events]
    /\ env' = [env EXCEPT !.at["api"] = "idle", !.held["api"] = {}]
    /\ UNCHANGED <<ThreadFrame, packet>>

\* finalize() below its lock_guard: returns when not initialized, calls stopCapture()
\* when capturing, and otherwise runs to its end
ApiFinalize ==
    /\ pc = "threads"
    /\ env.at["api"] = "body"
    /\ env.call = "finalize"
    /\ IF ~gpu_engine_.initialized_
       THEN /\ env' = [env EXCEPT !.at["api"] = "idle", !.held["api"] = {}]
            /\ UNCHANGED gpu_engine_
       ELSE IF gpu_engine_.capturing_
       THEN /\ env' = [env EXCEPT !.at["api"] = "relock"]
            /\ UNCHANGED gpu_engine_
       ELSE /\ env' = [env EXCEPT !.at["api"] = "idle", !.held["api"] = {}]
            /\ gpu_engine_' = finalizeRest(gpu_engine_)
    /\ UNCHANGED <<ThreadFrame, obs, packet>>

\* stopCapture() called from finalize(): its lock_guard locks mutex_, which the calling
\* thread owns.  std::mutex::lock by the owner is undefined; the thread blocks for
\* good, or lock() throws std::system_error and finalize() is left by the exception.
ApiRelock ==
    /\ pc = "threads"
    /\ env.at["api"] = "relock"
    /\ \/ env' = [env EXCEPT !.at["api"] = "hung"]
       \/ env' = [env EXCEPT !.at["api"] = "threw", !.held["api"] = {}]
    /\ UNCHANGED <<ThreadFrame, gpu_engine_, obs, packet>>

\* a thread of the HIP runtime enters addEvent: ++events_captured_, then callback_
HipEnter(t) ==
    /\ pc = "threads"
    /\ env.at[t] = "idle"
    /\ t \notin env.done
    /\ gpu_engine_.adapter.capturing_
    /\ gpu_engine_' = [gpu_engine_ EXCEPT !.adapter.events_captured_ = @ + 1]
    /\ env' = [env EXCEPT !.at[t] = "store"]
    /\ packet' = [op |-> "addEvent", thread |-> t]
    /\ UNCHANGED <<ThreadFrame, obs>>

\* handleEvent(event) up to the breakpoint loop
HipStore(t) ==
    /\ pc = "threads"
    /\ env.at[t] = "store"
    /\ gpu_engine_' =
          storeCaptured(
              addToKernelHistory(
                  feedStateMachine(addToEventHistory(gpu_engine_, EventOfThread(t)),
                                   EventOfThread(t)),
                  EventOfThread(t)),
              EventOfThread(t))
    /\ env' = [env EXCEPT !.at[t] = "match"]
    /\ UNCHANGED <<ThreadFrame, obs, packet>>

\* the breakpoint loop of handleEvent and the callback after it
HipMatch(t) ==
    /\ pc = "threads"
    /\ env.at[t] = "match"
    /\ gpu_engine_' =
          checkAndFire(gpu_engine_, EventOfThread(t),
                       firstMatch(gpu_engine_.gpu_breakpoints_, EventOfThread(t), 1)).g
    /\ obs' = [obs EXCEPT !.checked = Append(@, EventOfThread(t))]
    /\ env' = [env EXCEPT !.at[t] = "store_lock"]
    /\ UNCHANGED <<ThreadFrame, packet>>

\* the same loop run while the API thread is inside a mutation of the list: the loop
\* reads a vector that is being written, and may settle on any element or on none
HipMatchTorn(t) ==
    /\ pc = "threads"
    /\ env.at[t] = "match"
    /\ env.at["api"] = "body"
    /\ env.call \in {"setGPUBreakpoint", "removeGPUBreakpoint"}
    /\ \E i \in 0..Len(gpu_engine_.gpu_breakpoints_) :
          gpu_engine_' = checkAndFire(gpu_engine_, EventOfThread(t), i).g
    /\ obs' = [obs EXCEPT !.checked = Append(@, EventOfThread(t))]
    /\ env' = [env EXCEPT !.at[t] = "store_lock"]
    /\ UNCHANGED <<ThreadFrame, packet>>

\* addEvent: std::lock_guard<std::mutex> lock(events_mutex_)
HipLock(t) ==
    /\ pc = "threads"
    /\ env.at[t] = "store_lock"
    /\ Free("events_mutex_")
    /\ env' = [env EXCEPT !.at[t] = "push", !.held[t] = {"events_mutex_"}]
    /\ UNCHANGED <<ThreadFrame, gpu_engine_, obs, packet>>

\* addEvent: the buffer limit and events_.push_back
HipPush(t) ==
    /\ pc = "threads"
    /\ env.at[t] = "push"
    /\ gpu_engine_' = storeEvent([g |-> gpu_engine_, callback |-> <<>>, stored |-> FALSE],
                                 EventOfThread(t)).g
    /\ env' = [env EXCEPT !.at[t] = "idle", !.held[t] = {}, !.done = @ \cup {t}]
    /\ UNCHANGED <<ThreadFrame, obs, packet>>

ApiStep ==
    \/ ApiLock
    \/ ApiSetBreakpoint
    \/ ApiRemoveBreakpoint
    \/ ApiStartCapture
    \/ ApiStopCapture
    \/ ApiDrainLock
    \/ ApiDrain
    \/ ApiFinalize
    \/ ApiRelock

HipStep ==
    \E t \in HipThreads :
       \/ HipEnter(t)
       \/ HipStore(t)
       \/ HipMatch(t)
       \/ HipMatchTorn(t)
       \/ HipLock(t)
       \/ HipPush(t)

ThreadNext == ApiCall \/ ApiStep \/ HipStep

ThreadSpec == ThreadInit /\ [][ThreadNext]_vars

\* every thread that can take a step takes one in the end
ThreadFairSpec == ThreadSpec /\ WF_vars(ApiStep) /\ WF_vars(HipStep)



\* ---------------------------------------------------------------- C32
\* thread t is at a step that writes gpu_breakpoints_, or at one that matches against it
Mutating(t) ==
    /\ t = "api"
    /\ env.at[t] = "body"
    /\ env.call \in {"setGPUBreakpoint", "removeGPUBreakpoint"}
Matching(t) == t \in HipThreads /\ env.at[t] = "match"

\* C32: a thread that is about to change the GPU breakpoint list or to match an event
\* against it owns mutex_, so no thread matches while another changes the list.
C32_ListUnderMutex ==
    /\ \A t \in Threads : Mutating(t) \/ Matching(t) => "mutex_" \in env.held[t]
    /\ \A t, u \in Threads : ~(Mutating(t) /\ Matching(u))

\* ---------------------------------------------------------------- C33
\* thread t is at the constructor of a lock_guard
Locking(t) == env.at[t] \in {"lock", "drain_lock", "relock", "store_lock"}

\* C33: no thread owns two mutexes, and no thread that owns one is about to lock one.
C33_OneLockAtATime ==
    \A t \in Threads :
       /\ Cardinality(env.held[t]) <= 1
       /\ Locking(t) => env.held[t] = {}

\* ---------------------------------------------------------------- C34
\* the position of e in seq, or 0
RECURSIVE PosIn(_, _, _)
PosIn(seq, e, i) ==
    IF i > Len(seq) THEN 0 ELSE IF seq[i] = e THEN i ELSE PosIn(seq, e, i + 1)

\* C34: the events the drains have returned come in the order in which the breakpoint
\* loop saw them.
C34_ChecksInDrainOrder ==
    \A i, j \in DOMAIN obs.drained :
       i < j => PosIn(obs.checked, obs.drained[i], 1) < PosIn(obs.checked, obs.drained[j], 1)

\* ---------------------------------------------------------------- C35
\* C35: a finalize() that finds the engine capturing returns in the end, with the
\* engine neither capturing nor initialized.
C35_FinalizeTerminates ==
    (env.at["api"] = "body" /\ env.call = "finalize" /\ gpu_engine_.initialized_
        /\ gpu_engine_.capturing_)
    ~> (env.at["api"] = "idle" /\ ~gpu_engine_.capturing_ /\ ~gpu_engine_.initialized_)



\* ------------------------------------------------- the Tracy exporter's contexts
\* createGpuContext and destroyGpuContext on one exporter x:
\*   x.TRACY_ENABLE     the build has TRACY_ENABLE defined
\*   x.gpu_contexts_    device_id -> context id
\*   x.next_context_id  the function-local static std::atomic<uint8_t>, which every
\*                      exporter of the process shares

\* createGpuContext calls per run
MaxCreates == 4
\* devices are 0 .. MaxDevice
MaxDevice == 2
\* the values of next_context_id an exporter may find when it is constructed
CounterStarts == {0, 254}

\* a createGpuContext that allocates on every call
createGpuContext_Fresh(x, device_id) ==
    IF ~x.TRACY_ENABLE THEN [x |-> x, ret |-> 0]
    ELSE [x |-> [x EXCEPT !.next_context_id = (@ + 1) % 256,
                          !.gpu_contexts_ = MapPut(@, device_id, x.next_context_id)],
          ret |-> x.next_context_id]

\* createGpuContext(device_id, name): [x, ret]
createGpuContext(x, device_id) ==
    IF device_id \in DOMAIN x.gpu_contexts_
    THEN [x |-> x, ret |-> x.gpu_contexts_[device_id]]
    ELSE IF ~x.TRACY_ENABLE THEN [x |-> x, ret |-> 0]
    ELSE IF x.next_context_id >= 255
    THEN [x |-> [x EXCEPT !.next_context_id = (@ + 1) % 256], ret |-> 255]
    ELSE [x |-> [x EXCEPT !.next_context_id = (@ + 1) % 256,
                          !.gpu_contexts_ = MapPut(@, device_id, x.next_context_id)],
          ret |-> x.next_context_id]

\* the devices whose context is context_id
DevicesOf(x, context_id) ==
    {d \in DOMAIN x.gpu_contexts_ : x.gpu_contexts_[d] = context_id}

\* destroyGpuContext(context_id)
destroyGpuContext(x, context_id) ==
    [x EXCEPT !.gpu_contexts_ =
        [d \in DOMAIN @ \ DevicesOf(x, context_id) |-> @[d]]]

\* obs.ids[d] holds what createGpuContext has returned for device d since the device's
\* context was last destroyed; obs.full is set once a call has returned 255
TracyInit ==
    /\ pc = "tracy"
    /\ running_ = FALSE
    /\ no_ack_mode_ = FALSE
    /\ packet = [op |-> "none"]
    /\ resuming = ""
    /\ inbound = <<>>
    /\ peerClosed = FALSE
    /\ tx = <<>>
    /\ process_ = InitProcess
    /\ target = InitTarget
    /\ gpu_engine_ = InitEngine
    /\ \E enabled \in BOOLEAN, start \in CounterStarts :
          env = [TRACY_ENABLE |-> enabled, gpu_contexts_ |-> EmptyMap,
                 next_context_id |-> IF enabled THEN start ELSE 0, calls |-> 0]
    /\ obs = [ids |-> [d \in 0..MaxDevice |-> {}], full |-> FALSE]

TracyFrame == <<pc, running_, no_ack_mode_, resuming, inbound, peerClosed, tx, process_,
                target, gpu_engine_>>

TracyCreateGpuContext ==
    /\ pc = "tracy"
    /\ env.calls < MaxCreates
    /\ \E device_id \in 0..MaxDevice :
          LET r == createGpuContext(env, device_id) IN
          /\ env' = [r.x EXCEPT !.calls = @ + 1]
          /\ packet' = [op |-> "createGpuContext", device_id |-> device_id, ret |-> r.ret]
          /\ obs' = [obs EXCEPT !.ids[device_id] = @ \cup {r.ret},
                                !.full = @ \/ (env.TRACY_ENABLE /\ r.ret = 255)]
    /\ UNCHANGED TracyFrame

TracyDestroyGpuContext ==
    /\ pc = "tracy"
    /\ \E context_id \in {env.gpu_contexts_[d] : d \in DOMAIN env.gpu_contexts_} :
          /\ env' = destroyGpuContext(env, context_id)
          /\ packet' = [op |-> "destroyGpuContext", context_id |-> context_id]
          /\ obs' = [obs EXCEPT !.ids = [d \in 0..MaxDevice |->
                                            IF d \in DevicesOf(env, context_id) THEN {}
                                            ELSE @[d]]]
    /\ UNCHANGED TracyFrame

TracyNext == TracyCreateGpuContext \/ TracyDestroyGpuContext

TracySpec == TracyInit /\ [][TracyNext]_vars

C38_NoStopAfterExit ==
    [][obs.exited /\ WaitStop =>
          Char(formatStopReply(obs'.event), 1) \notin {"S", "T"}]_vars



\* ---------------------------------------------------------------- C39
\* C39: in ack mode, when the byte waitForAck reads is the client's '-', the stub writes
\* the reply it last wrote once more.
C39_NackRetransmits ==
    [][(/\ AckRead
        /\ ~no_ack_mode_
        /\ inbound # <<>>
        /\ Head(inbound) = [kind |-> "byte", c |-> "-"]
        /\ tx # <<>>)
       => tx' = Append(tx, LastWritten)]_vars



\* ------------------------------------------- memory writes and breakpoints
\* writeMemory(addr, data) for data shorter than a word: one PTRACE_PEEKDATA, the
\* bytes of data copied over the word, one PTRACE_POKEDATA: [w, ret]
writeMemory(w, addr, data, fault) ==
    IF ~isAttached(w.p) \/ data = <<>> THEN [w |-> w, ret |-> FALSE]
    ELSE IF ~PeekOk(w, addr, fault) THEN [w |-> w, ret |-> FALSE]
    ELSE IF ~PokeOk(w, addr, fault) THEN [w |-> w, ret |-> FALSE]
    ELSE [w |-> [w EXCEPT !.t.mem =
                    [a \in Addrs |-> IF a >= addr /\ a < addr + Len(data)
                                     THEN data[a - addr + 1] ELSE @[a]]],
          ret |-> TRUE]

\* the bytes a debugger writes: a nop or a ret
WriteBytes == {144, 195}
WriteData == {<<>>} \cup {<<b>> : b \in WriteBytes}
                    \cup {<<b, c>> : b \in WriteBytes, c \in WriteBytes}

\* obs.written[a] is the byte the debugger last wrote to a while the breakpoint that is
\* enabled at a was in place
CallWriteMemory ==
    \E addr \in Addrs, data \in WriteData, fault \in Faults :
       LET r == writeMemory(World, addr, data, fault)
           hit == IF r.ret
                  THEN {a \in Addrs : /\ a >= addr
                                      /\ a < addr + Len(data)
                                      /\ hasBreakpointAt(process_, a)}
                  ELSE {}
       IN  /\ pc = "api"
           /\ env.calls < MaxCalls
           /\ process_' = r.w.p
           /\ target' = r.w.t
           /\ obs' = [obs EXCEPT !.written =
                         [a \in DOMAIN @ \cup hit |->
                             IF a \in hit THEN data[a - addr + 1] ELSE @[a]]]
           /\ env' = [env EXCEPT !.calls = @ + 1]
           /\ packet' = IF r.ret THEN "OK" ELSE "E01"
           /\ UNCHANGED <<pc, running_, no_ack_mode_, resuming, inbound, peerClosed, tx,
                          gpu_engine_>>

MemNext ==
    \/ CallSetBreakpoint
    \/ CallWriteMemory
    \/ CallRemoveBreakpoint
    \/ CallRemoveBreakpointAt
    \/ CallEnableBreakpoint
    \/ CallDetach

MemSpec == PCInit /\ [][MemNext]_vars

\* ---------------------------------------------------------------- C40
\* C40: when a breakpoint is removed from an address the debugger has written to while
\* the breakpoint was in place, or the controller detaches, and the kernel refuses no
\* request, the address holds the byte the debugger wrote.
C40_WriteSurvivesRemoval ==
    [][/\ \A id \in BpIds :
            (/\ Called(removeBreakpoint(World, id, "none"))
             /\ id \in DOMAIN process_.breakpoints_
             /\ process_.breakpoints_[id].enabled
             /\ process_.breakpoints_[id].address \in DOMAIN obs.written)
            => target'.mem[process_.breakpoints_[id].address]
                  = obs.written[process_.breakpoints_[id].address]
       /\ Called(detach(World, "none"))
            => \A a \in DOMAIN obs.written : target'.mem[a] = obs.written[a]]_vars


====
